---------------------------- MODULE Spec2Model ----------------------------
(***************************************************************************)
(* RiskLens: the sector-map cache and the price download of                *)
(* src/data_fetcher.py, the sector                                         *)
(* analysis functions of src/sector_analysis.py and the volatility         *)
(* estimators of src/volatility.py.                                        *)
(*                                                                         *)
(* Specifications:                                                         *)
(*   Spec        single-writer sequence of get_sector_mapping calls        *)
(*   SpecRace    two get_sector_mapping calls interleaved step by step     *)
(*   SpecRegime  detect_sector_volatility_regimes on bounded inputs        *)
(*   SpecSector  compute_sector_volatility on bounded inputs               *)
(*   SpecRank    rank_sectors_by_volatility on bounded inputs              *)
(*   SpecRankMean  rank_sectors_by_volatility without a date               *)
(*   SpecRisk    compute_sector_risk_contribution on bounded inputs        *)
(*   SpecBench   compare_with_benchmark on bounded inputs                  *)
(*   SpecCluster cluster_sectors_by_volatility on bounded inputs           *)
(*   SpecEmpty   the seven sector operations on empty matrices             *)
(*   SpecVol     the three volatility estimators on bounded price tables   *)
(*   SpecPure    repeated calls of the computation functions, with the     *)
(*               arguments as they are after each call                     *)
(*   SpecFetch   fetch_ohlcv on the tables yf.download can return          *)
(*   SpecCache   get_sector_mapping calls with the lookups and the write   *)
(*               of each call on record, the write succeeding or failing   *)
(***************************************************************************)
EXTENDS Integers, Sequences, FiniteSets, TLC

VARIABLES
    file,     \* data/sector_mapping.csv: [exists, rows], rows of text fields
    last,     \* the last completed get_sector_mapping call (history)
    proc,     \* SpecRace: each concurrent call's position and locals
    events,   \* SpecRace: the order in which reads and writes happened
    inp,      \* the arguments of the analysis function under check
    out       \* its result: [done, raised, msg, value]

vars == <<file, last, proc, events, inp, out>>

(***************************************************************************)
(* Bounds of the model.                                                    *)
(***************************************************************************)
MaxReq == 2      \* longest request list of one get_sector_mapping call
MaxRows == 2     \* most rows the cache file is allowed to grow to
MaxRaceReq == 1  \* longest request list of each of the two concurrent calls
MaxDates == 2    \* most dates (rows) of a sector matrix handed to the regimes
MaxStockDates == 1  \* most dates of a stock matrix handed to the aggregation
MaxRankDates == 1  \* most dates of a sector matrix handed to the ranking
MaxMeanDates == 2
MaxRiskDates == 1
MaxBenchDates == 2
MaxClusterDates == 1
MaxClusters == 3
MaxEmptyDates == 2
MaxBars == 3
MaxWindow == 3
MaxPureBars == 1
MaxCalls == 2
MaxFetchReq == 2
MaxFetchDates == 1
MaxCacheReq == 2
MaxCacheRows == 2
MaxCacheCalls == 2
MaxTopN == 3     \* largest top_n asked of the ranking

(***************************************************************************)
(* Generic helpers.                                                        *)
(***************************************************************************)
Range(s) == {s[i] : i \in 1..Len(s)}

SeqsUpTo(S, n) == UNION {[1..k -> S] : k \in 0..n}

(***************************************************************************)
(* The cache file as text, and pandas' reading and writing of it.          *)
(***************************************************************************)
\* A cell of an object column that holds no value (NaN / None).
Missing == "<missing>"

\* The strings pd.read_csv turns into a missing value when called, as here,
\* without na_values / keep_default_na / dtype arguments.
NaStrings ==
    {"", "#N/A", "#N/A N/A", "#NA", "-1.#IND", "-1.#QNAN", "-NaN", "-nan",
     "1.#IND", "1.#QNAN", "<NA>", "N/A", "NA", "NULL", "NaN", "None", "n/a",
     "nan", "null"}

Tickers == {"AAPL", "MSFT", "NA"}

ProviderSectors == {"Technology"}

\* What yf.Ticker(t).info can do for one lookup: a record with a sector, a
\* record without the 'sector' key, or an exception.
NoSectorKey == "<no sector key>"
LookupRaises == "<raises>"
ProviderOutcomes == ProviderSectors \cup {NoSectorKey, LookupRaises}

NoFile == [exists |-> FALSE, rows |-> <<>>]
EmptyFile == [exists |-> TRUE, rows |-> <<>>]

ReadField(s) == IF s \in NaStrings THEN Missing ELSE s

WriteField(v) == IF v = Missing THEN "" ELSE v

\* pd.read_csv succeeds: the file exists (else FileNotFoundError) and is not
\* empty (else EmptyDataError).
ReadCsvOk(f) == f.exists /\ f.rows # <<>>

ReadCsv(f) ==
    [i \in 1..Len(f.rows) |->
        [Ticker |-> ReadField(f.rows[i].Ticker),
         Sector |-> ReadField(f.rows[i].Sector)]]

ToCsv(df) ==
    [exists |-> TRUE,
     rows |-> [i \in 1..Len(df) |->
                 [Ticker |-> WriteField(df[i].Ticker),
                  Sector |-> WriteField(df[i].Sector)]]]

(***************************************************************************)
(* get_sector_mapping, src/data_fetcher.py lines 9-64.                     *)
(***************************************************************************)
TickerValues(df) == {df[i].Ticker : i \in 1..Len(df)}

MissingTickers(df, tickers) ==
    SelectSeq(tickers, LAMBDA t : t \notin TickerValues(df))

FilterRequested(df, tickers) ==
    SelectSeq(df, LAMBDA r : r.Ticker \in Range(tickers))

\* The try block, lines 25-38: the frame and the tickers still to look up.
LoadedFrame(f) == IF ReadCsvOk(f) THEN ReadCsv(f) ELSE <<>>

LoadedMissing(f, tickers) ==
    IF ReadCsvOk(f) THEN MissingTickers(ReadCsv(f), tickers) ELSE tickers

\* Variant: a failed lookup leaves the label missing.
SectorOfNoDefault(o) ==
    IF o = LookupRaises THEN Missing
    ELSE IF o = NoSectorKey THEN Missing
    ELSE o

\* Lines 44-50: one lookup.
SectorOf(o) ==
    IF o = LookupRaises THEN "Unknown"
    ELSE IF o = NoSectorKey THEN "Unknown"
    ELSE o

NewMappings(missing, outs) ==
    [i \in 1..Len(missing) |-> [Ticker |-> missing[i], Sector |-> SectorOf(outs[i])]]

\* Line 54.
Concat(df, new) == df \o new

\* Variant: to_csv opened in append mode.
SaveCsvAppend(f, df, writeOk) ==
    IF writeOk THEN [exists |-> TRUE, rows |-> f.rows \o ToCsv(df).rows] ELSE f

\* Lines 57-61: to_csv either replaces the file or raises before touching it.
SaveCsv(f, df, writeOk) == IF writeOk THEN ToCsv(df) ELSE f

NoCall ==
    [tickers |-> <<>>, pre |-> NoFile, looked |-> <<>>, ret |-> <<>>,
     wrote |-> FALSE, n |-> 0]

\* One whole call by the only writer.
GetSectorMapping(tickers, outs, writeOk) ==
    LET df0 == LoadedFrame(file)
        missing == LoadedMissing(file, tickers)
        df1 == Concat(df0, NewMappings(missing, outs))
    IN  /\ file' = IF missing # <<>> THEN SaveCsv(file, df1, writeOk) ELSE file
        /\ last' = [tickers |-> tickers, pre |-> file, looked |-> missing,
                    ret |-> FilterRequested(df1, tickers),
                    wrote |-> (missing # <<>> /\ writeOk),
                    n |-> IF last.n < 2 THEN last.n + 1 ELSE 2]
        /\ UNCHANGED <<proc, events, inp, out>>

\* The file is allowed to grow to MaxRows rows; a call that finds nothing
\* missing has one outcome whatever the disk would do.
Call ==
    \E tickers \in SeqsUpTo(Tickers, MaxReq) :
        LET missing == LoadedMissing(file, tickers)
        IN  /\ Len(file.rows) + Len(missing) <= MaxRows
            /\ \E outs \in [1..Len(missing) -> ProviderOutcomes] :
                   \E writeOk \in (IF missing = <<>> THEN {TRUE} ELSE BOOLEAN) :
                       GetSectorMapping(tickers, outs, writeOk)

(***************************************************************************)
(* Two get_sector_mapping calls running concurrently: each call is the     *)
(* same code, taken one file access at a time.  There is no lock around    *)
(* lines 25-61, so the steps of the two calls interleave freely.           *)
(***************************************************************************)
Procs == {1, 2}

Idle ==
    [pc |-> "idle", tickers |-> <<>>, sector_df |-> <<>>, missing_tickers |-> <<>>,
     new_mappings |-> <<>>, ret |-> <<>>]

\* Function entry: the request list is bound.
Begin(p, tickers) ==
    /\ proc[p].pc = "idle"
    /\ proc' = [proc EXCEPT ![p] = [Idle EXCEPT !.pc = "load", !.tickers = tickers]]
    /\ UNCHANGED <<file, last, events, inp, out>>

\* Lines 25-38: read the file; return at once when nothing is missing.
Load(p) ==
    /\ proc[p].pc = "load"
    /\ LET df == LoadedFrame(file)
           missing == LoadedMissing(file, proc[p].tickers)
       IN  proc' = [proc EXCEPT ![p] =
                [@ EXCEPT !.pc = IF missing = <<>> THEN "done" ELSE "fetch",
                          !.sector_df = df,
                          !.missing_tickers = missing,
                          !.ret = IF missing = <<>>
                                  THEN FilterRequested(df, proc[p].tickers)
                                  ELSE <<>>]]
    /\ events' = Append(events, <<"load", p>>)
    /\ UNCHANGED <<file, last, inp, out>>

\* Lines 41-54: look the missing tickers up and append them in memory.
Fetch(p, outs) ==
    /\ proc[p].pc = "fetch"
    /\ LET new == NewMappings(proc[p].missing_tickers, outs)
       IN  proc' = [proc EXCEPT ![p] =
                [@ EXCEPT !.pc = "save",
                          !.new_mappings = new,
                          !.sector_df = Concat(proc[p].sector_df, new)]]
    /\ UNCHANGED <<file, last, events, inp, out>>

\* Lines 57-64: rewrite the whole file from the in-memory frame and return.
Save(p, writeOk) ==
    /\ proc[p].pc = "save"
    /\ file' = SaveCsv(file, proc[p].sector_df, writeOk)
    /\ proc' = [proc EXCEPT ![p] =
                [@ EXCEPT !.pc = "done",
                          !.ret = FilterRequested(proc[p].sector_df, proc[p].tickers)]]
    /\ events' = Append(events, <<IF writeOk THEN "save" ELSE "savefail", p>>)
    /\ UNCHANGED <<last, inp, out>>

InitRace ==
    /\ file \in {NoFile, EmptyFile}
    /\ last = NoCall
    /\ proc = [p \in Procs |-> Idle]
    /\ events = <<>>
    /\ inp = <<>>
    /\ out = <<>>

NextRace ==
    \E p \in Procs :
        \/ \E tickers \in SeqsUpTo(Tickers, MaxRaceReq) : Begin(p, tickers)
        \/ Load(p)
        \/ \E outs \in [1..Len(proc[p].missing_tickers) -> ProviderOutcomes] : Fetch(p, outs)
        \/ \E writeOk \in BOOLEAN : Save(p, writeOk)

SpecRace == InitRace /\ [][NextRace]_vars

(***************************************************************************)
(* Numbers.  A volatility value is an exact fraction [n, d] with d > 0 in  *)
(* lowest terms; d = 0 encodes the three special floats.                   *)
(***************************************************************************)
NaN == [n |-> 0, d |-> 0]
PosInf == [n |-> 1, d |-> 0]
NegInf == [n |-> -1, d |-> 0]

Abs(x) == IF x < 0 THEN -x ELSE x

RECURSIVE GCD(_, _)
GCD(a, b) == IF b = 0 THEN a ELSE GCD(b, a % b)

Frac(n, d) ==
    LET g == GCD(Abs(n), d)
    IN  [n |-> n \div g, d |-> d \div g]

R(k) == [n |-> k, d |-> 1]

IsNaN(x) == x = NaN

\* a < b on floats; false whenever either side is NaN.
Less(a, b) ==
    /\ ~IsNaN(a)
    /\ ~IsNaN(b)
    /\ IF a.d = 0 /\ b.d = 0 THEN a.n < b.n ELSE a.n * b.d < b.n * a.d

Leq(a, b) == ~IsNaN(a) /\ ~IsNaN(b) /\ (a = b \/ Less(a, b))

IsInf(x) == x = PosInf \/ x = NegInf

\* -1, 0 or 1; the sign of NaN is not used.
Sign(x) == IF x.n > 0 THEN 1 ELSE IF x.n < 0 THEN -1 ELSE 0

Inf(sign) == IF sign > 0 THEN PosInf ELSE NegInf

\* Float addition: NaN is contagious, inf + -inf is NaN.
Add(a, b) ==
    IF IsNaN(a) \/ IsNaN(b) THEN NaN
    ELSE IF IsInf(a) /\ IsInf(b) THEN (IF a = b THEN a ELSE NaN)
    ELSE IF IsInf(a) THEN a
    ELSE IF IsInf(b) THEN b
    ELSE Frac(a.n * b.d + b.n * a.d, a.d * b.d)

Neg(a) == [n |-> -a.n, d |-> a.d]

\* Variant: the operands swapped.
SubReversed(a, b) == Add(b, Neg(a))

Sub(a, b) == Add(a, Neg(b))

DivInt(a, k) == IF a.d = 0 THEN NaN ELSE Frac(a.n, a.d * k)

\* Float multiplication: 0 * inf is NaN.
Mul(a, b) ==
    IF IsNaN(a) \/ IsNaN(b) THEN NaN
    ELSE IF IsInf(a) \/ IsInf(b)
         THEN (IF Sign(a) * Sign(b) = 0 THEN NaN ELSE Inf(Sign(a) * Sign(b)))
    ELSE Frac(a.n * b.n, a.d * b.d)

\* Float division as numpy does it on arrays: x / 0 is an infinity of the
\* sign of x, 0 / 0 and inf / inf are NaN, and nothing is raised.
Div(a, b) ==
    IF IsNaN(a) \/ IsNaN(b) THEN NaN
    ELSE IF IsInf(b) THEN (IF IsInf(a) THEN NaN ELSE R(0))
    ELSE IF b.n = 0 THEN (IF Sign(a) = 0 THEN NaN ELSE Inf(Sign(a)))
    ELSE IF IsInf(a) THEN Inf(Sign(a) * Sign(b))
    ELSE Frac(Sign(b) * a.n * b.d, a.d * Abs(b.n))

RECURSIVE Sum(_)
Sum(xs) == IF xs = <<>> THEN R(0) ELSE Add(Head(xs), Sum(Tail(xs)))

(***************************************************************************)
(* Data frames: an index (dates), columns, and a value for each            *)
(* <<date, column>> pair.  pd.DataFrame() has neither dates nor columns.   *)
(***************************************************************************)
EmptyDF == [index |-> <<>>, columns |-> <<>>, cell |-> <<>>]

\* DataFrame.empty: any axis of length 0.
IsEmpty(df) == Len(df.index) = 0 \/ Len(df.columns) = 0

Keys(df) == Range(df.index) \X Range(df.columns)

Transpose(df) ==
    [index |-> df.columns, columns |-> df.index,
     cell |-> [k \in Range(df.columns) \X Range(df.index) |-> df.cell[<<k[2], k[1]>>]]]

SubSeqs(base) == {SelectSeq(base, LAMBDA c : c \in S) : S \in SUBSET Range(base)}

\* Date labels, in calendar order.
DateLabels == <<"2024-01-01", "2024-01-02", "2024-01-03", "2024-01-04">>

DateIndex(n) == SubSeq(DateLabels, 1, n)

\* The matrix with the first n dates, the columns cols and the cells f.
Frame(n, cols, f) == [index |-> DateIndex(n), columns |-> cols, cell |-> f]

Return(v) == [done |-> TRUE, raised |-> FALSE, msg |-> <<>>, value |-> v]

Raise(m) == [done |-> TRUE, raised |-> TRUE, msg |-> m, value |-> EmptyDF]

NotCalled == [done |-> FALSE, raised |-> FALSE, msg |-> <<>>, value |-> EmptyDF]

(***************************************************************************)
(* detect_sector_volatility_regimes, src/sector_analysis.py lines 286-316. *)
(***************************************************************************)
NoLabel == "NaN"

RegimeLabels == <<"Low", "Medium", "High">>

\* Variant: side='right', the intervals closed on the left.
SearchSortedRight(bins, x) == Cardinality({i \in 1..Len(bins) : Leq(bins[i], x)})

\* bins.searchsorted(x, side='left'): how many bin edges lie strictly below x.
SearchSortedLeft(bins, x) == Cardinality({i \in 1..Len(bins) : Less(bins[i], x)})

\* pd.cut refuses bin edges that do not increase.
BinsIncrease(bins) == \A i \in 1..(Len(bins) - 1) : Less(bins[i], bins[i + 1])

\* Variant: an undefined value is put in the lowest bin.
CutFillNa(x, bins, labels, include_lowest) ==
    IF IsNaN(x) THEN labels[1]
    ELSE LET ids0 == SearchSortedLeft(bins, x)
             ids == IF include_lowest /\ x = bins[1] THEN 1 ELSE ids0
         IN  IF ids = Len(bins) \/ ids = 0 THEN NoLabel ELSE labels[ids]

\* pd.cut(x, bins, labels, right=True, include_lowest) for one value.
Cut(x, bins, labels, include_lowest) ==
    LET ids0 == SearchSortedLeft(bins, x)
        ids == IF include_lowest /\ x = bins[1] THEN 1 ELSE ids0
    IN  IF IsNaN(x) \/ ids = Len(bins) \/ ids = 0 THEN NoLabel ELSE labels[ids]

RegimeBins(thresholds) == <<NegInf, thresholds[1], thresholds[2], PosInf>>

\* Lines 305-314: the loop over the columns of the copy.
RECURSIVE RegimeLoop(_, _, _)
RegimeLoop(regime_df, cols, thresholds) ==
    IF cols = <<>> THEN regime_df
    ELSE LET sector == Head(cols)
             cut == [regime_df EXCEPT !.cell =
                        [k \in DOMAIN @ |->
                            IF k[2] = sector
                            THEN Cut(@[k], RegimeBins(thresholds), RegimeLabels, TRUE)
                            ELSE @[k]]]
         IN  RegimeLoop(cut, Tail(cols), thresholds)

detect_sector_volatility_regimes(sector_vol_df, thresholds) ==
    IF IsEmpty(sector_vol_df) THEN Return(EmptyDF)
    ELSE IF ~BinsIncrease(RegimeBins(thresholds))
         THEN Raise(<<"bins must increase monotonically.">>)
    ELSE Return(RegimeLoop(sector_vol_df, sector_vol_df.columns, thresholds))

RegimeSectors == <<"Energy", "Tech">>
RegimeVals == {NaN, R(0), R(1), R(2), R(3), R(4)}
ThresholdVals == {R(1), R(3)}

InitRegime ==
    /\ file = NoFile
    /\ last = NoCall
    /\ proc = <<>>
    /\ events = <<>>
    /\ \E th \in ThresholdVals \X ThresholdVals :
           \E n \in 0..MaxDates :
               \E cols \in SubSeqs(RegimeSectors) :
                   \E f \in [Range(DateIndex(n)) \X Range(cols) -> RegimeVals] :
                       inp = [sector_vol_df |-> Frame(n, cols, f), thresholds |-> th]
    /\ out = NotCalled

DetectRegimes ==
    /\ ~out.done
    /\ out' = detect_sector_volatility_regimes(inp.sector_vol_df, inp.thresholds)
    /\ UNCHANGED <<file, last, proc, events, inp>>

NextRegime == DetectRegimes

SpecRegime == InitRegime /\ [][NextRegime]_vars

(***************************************************************************)
(* compute_sector_volatility, src/sector_analysis.py lines 19-62.          *)
(***************************************************************************)
\* Sector labels in the order groupby('Sector') sorts them.
SectorOrder == <<"Automotive", "Technology">>

\* The tickers a stock matrix or a sector map may name.
StockTickers == <<"AAPL", "MSFT", "TSLA">>

\* Line 38.
AvailableTickers(stock_vol_df, sector_map) ==
    SelectSeq(stock_vol_df.columns, LAMBDA col : col \in DOMAIN sector_map)

\* Variant: merged with how='right', so every mapped ticker gets a row, the
\* ones that are no column of the matrix with undefined values.
VolWithSectorsRight(stock_vol_df, sector_map) ==
    LET keys == SelectSeq(StockTickers, LAMBDA t : t \in DOMAIN sector_map)
    IN  [i \in 1..Len(keys) |->
            [Ticker |-> keys[i],
             Sector |-> sector_map[keys[i]],
             vals |-> [d \in Range(stock_vol_df.index) |->
                          IF keys[i] \in Range(stock_vol_df.columns)
                          THEN stock_vol_df.cell[<<d, keys[i]>>]
                          ELSE NaN]]]

\* Lines 39-47: the filtered matrix transposed (one row per ticker, its
\* values by date) and left-merged with the mapping on 'Ticker'.
VolWithSectors(stock_vol_df, sector_map) ==
    LET available_tickers == AvailableTickers(stock_vol_df, sector_map)
    IN  [i \in 1..Len(available_tickers) |->
            [Ticker |-> available_tickers[i],
             Sector |-> sector_map[available_tickers[i]],
             vals |-> [d \in Range(stock_vol_df.index) |->
                          stock_vol_df.cell[<<d, available_tickers[i]>>]]]]

\* Line 50: the columns that are neither 'Ticker' nor 'Sector' - the dates.
VolCols(stock_vol_df) ==
    SelectSeq(stock_vol_df.index, LAMBDA col : col \notin {"Ticker", "Sector"})

\* Stable insertion sort, ascending.
RECURSIVE InsertAsc(_, _)
InsertAsc(x, xs) ==
    IF xs = <<>> THEN <<x>>
    ELSE IF Less(x, Head(xs)) THEN <<x>> \o xs
    ELSE <<Head(xs)>> \o InsertAsc(x, Tail(xs))

RECURSIVE SortAsc(_)
SortAsc(xs) ==
    IF xs = <<>> THEN <<>>
    ELSE InsertAsc(xs[Len(xs)], SortAsc(SubSeq(xs, 1, Len(xs) - 1)))

DropNaN(xs) == SelectSeq(xs, LAMBDA x : ~IsNaN(x))

\* Variant: skipna=False, one undefined value makes the mean undefined.
MeanKeepNaN(xs) == IF xs = <<>> THEN NaN ELSE DivInt(Sum(xs), Len(xs))

\* GroupBy.mean / GroupBy.median skip undefined values; a group with no
\* defined value gives NaN.
Mean(xs) ==
    LET ys == DropNaN(xs)
    IN  IF ys = <<>> THEN NaN ELSE DivInt(Sum(ys), Len(ys))

Median(xs) ==
    LET ys == SortAsc(DropNaN(xs))
        k == Len(ys)
    IN  IF k = 0 THEN NaN
        ELSE IF k % 2 = 1 THEN ys[(k + 1) \div 2]
        ELSE DivInt(Add(ys[k \div 2], ys[k \div 2 + 1]), 2)

\* The groups of groupby('Sector'): the sectors of the merged rows, sorted.
GroupKeys(rows) ==
    SelectSeq(SectorOrder, LAMBDA s : \E i \in 1..Len(rows) : rows[i].Sector = s)

GroupColumn(rows, s, d) ==
    LET members == SelectSeq(rows, LAMBDA r : r.Sector = s)
    IN  [i \in 1..Len(members) |-> members[i].vals[d]]

\* groupby('Sector')[vol_cols].mean() or .median(): one row per group.
GroupByAgg(rows, vol_cols, how) ==
    LET keys == GroupKeys(rows)
    IN  [index |-> keys, columns |-> vol_cols,
         cell |-> [k \in Range(keys) \X Range(vol_cols) |->
                      IF how = "median"
                      THEN Median(GroupColumn(rows, k[1], k[2]))
                      ELSE Mean(GroupColumn(rows, k[1], k[2]))]]

UnsupportedMethod(method) ==
    <<"Method '", method, "' not supported. Use 'mean', 'median', or 'weighted'.">>

\* Lines 52-62: the dispatch on the method name and the final transpose.
\* Variant: an unknown method name falls back to the mean.
AggregateDefaultMean(rows, vol_cols, method) ==
    IF method = "median" THEN Return(Transpose(GroupByAgg(rows, vol_cols, "median")))
    ELSE Return(Transpose(GroupByAgg(rows, vol_cols, "mean")))

\* Variant: the weighted branch aggregates with the median.
AggregateWeightedMedian(rows, vol_cols, method) ==
    IF method = "mean" THEN Return(Transpose(GroupByAgg(rows, vol_cols, "mean")))
    ELSE IF method = "median" THEN Return(Transpose(GroupByAgg(rows, vol_cols, "median")))
    ELSE IF method = "weighted" THEN Return(Transpose(GroupByAgg(rows, vol_cols, "median")))
    ELSE Raise(UnsupportedMethod(method))

Aggregate(rows, vol_cols, method) ==
    IF method = "mean" THEN Return(Transpose(GroupByAgg(rows, vol_cols, "mean")))
    ELSE IF method = "median" THEN Return(Transpose(GroupByAgg(rows, vol_cols, "median")))
    ELSE IF method = "weighted" THEN Return(Transpose(GroupByAgg(rows, vol_cols, "mean")))
    ELSE Raise(UnsupportedMethod(method))

\* Variant: without the early return for an empty matrix.
ComputeSectorVolatilityUnguarded(stock_vol_df, sector_map, method) ==
    Aggregate(VolWithSectors(stock_vol_df, sector_map), VolCols(stock_vol_df), method)

compute_sector_volatility(stock_vol_df, sector_map, method) ==
    IF IsEmpty(stock_vol_df) THEN Return(EmptyDF)
    ELSE Aggregate(VolWithSectors(stock_vol_df, sector_map),
                   VolCols(stock_vol_df), method)

StockVals == {NaN, R(1), R(2), R(4)}
Methods == {"mean", "median", "weighted", "mode"}
SectorMaps == UNION {[D -> Range(SectorOrder)] : D \in SUBSET Range(StockTickers)}

InitSector ==
    /\ file = NoFile
    /\ last = NoCall
    /\ proc = <<>>
    /\ events = <<>>
    /\ \E me \in Methods :
           \E m \in SectorMaps :
               \E n \in 0..MaxStockDates :
                   \E cols \in SubSeqs(StockTickers) :
                       \E f \in [Range(DateIndex(n)) \X Range(cols) -> StockVals] :
                           inp = [stock_vol_df |-> Frame(n, cols, f),
                                  sector_map |-> m, method |-> me]
    /\ out = NotCalled

ComputeSectorVolatility ==
    /\ ~out.done
    /\ out' = compute_sector_volatility(inp.stock_vol_df, inp.sector_map, inp.method)
    /\ UNCHANGED <<file, last, proc, events, inp>>

NextSector == ComputeSectorVolatility

SpecSector == InitSector /\ [][NextSector]_vars

(***************************************************************************)
(* compute_sector_risk_contribution, src/sector_analysis.py lines 64-116.  *)
(* A series is a function from its index labels to values.                 *)
(***************************************************************************)
\* Series.sum(): undefined values are skipped; an empty sum is 0.
RECURSIVE SeriesSum(_)
SeriesSum(ser) ==
    IF DOMAIN ser = {} THEN R(0)
    ELSE LET k == CHOOSE k \in DOMAIN ser : TRUE
             rest == SeriesSum([j \in DOMAIN ser \ {k} |-> ser[j]])
         IN  IF IsNaN(ser[k]) THEN rest ELSE Add(ser[k], rest)

\* Line 85: the labels of the sector map.
MapSectors(sector_map) == {sector_map[t] : t \in DOMAIN sector_map}

\* Lines 83-88: the weights as a series; the default gives 1/len(sectors) to
\* every label of the sector map.
SetupWeights(sector_map, weights) ==
    IF weights = <<>>
    THEN [s \in MapSectors(sector_map) |-> Frac(1, Cardinality(MapSectors(sector_map)))]
    ELSE weights[1]

\* Line 91.
NormalizeWeights(weights) == [s \in DOMAIN weights |-> Div(weights[s], SeriesSum(weights))]

\* Line 99: the sectors with a defined value on the date.
AvailableSectors(date_vols) == {s \in DOMAIN date_vols : ~IsNaN(date_vols[s])}

\* Lines 100-101: reindex to the available sectors, undefined weights become
\* 0, and the weights are divided by their sum when that sum is positive.
DateWeights(weights, available_sectors) ==
    LET reindexed == [s \in available_sectors |->
                        IF s \in DOMAIN weights /\ ~IsNaN(weights[s]) THEN weights[s] ELSE R(0)]
        total == SeriesSum(reindexed)
    IN  IF Less(R(0), total)
        THEN [s \in available_sectors |-> Div(reindexed[s], total)]
        ELSE reindexed

\* Line 104: the product aligns the two series on the union of their labels;
\* a label only one of them has gives an undefined value.
WeightedVols(date_vols, date_weights) ==
    [s \in DOMAIN date_vols \cup DOMAIN date_weights |->
        IF s \in DOMAIN date_vols /\ s \in DOMAIN date_weights
        THEN Mul(date_vols[s], date_weights[s])
        ELSE NaN]

\* Variant: the shares are not converted to a percentage.
RiskContribFraction(weighted_vols, available_sectors) ==
    LET total_weighted_vol == SeriesSum(weighted_vols)
    IN  IF Less(R(0), total_weighted_vol)
        THEN [s \in DOMAIN weighted_vols |-> Div(weighted_vols[s], total_weighted_vol)]
        ELSE [s \in available_sectors |-> R(0)]

\* Lines 107-111.
RiskContrib(weighted_vols, available_sectors) ==
    LET total_weighted_vol == SeriesSum(weighted_vols)
    IN  IF Less(R(0), total_weighted_vol)
        THEN [s \in DOMAIN weighted_vols |->
                 Mul(Div(weighted_vols[s], total_weighted_vol), R(100))]
        ELSE [s \in available_sectors |-> R(0)]

\* Lines 96-111 for one date of the sector matrix.
DateContribution(sector_vol_df, weights, date) ==
    LET date_vols == [s \in Range(sector_vol_df.columns) |-> sector_vol_df.cell[<<date, s>>]]
        available_sectors == AvailableSectors(date_vols)
        date_weights == DateWeights(weights, available_sectors)
    IN  RiskContrib(WeightedVols(date_vols, date_weights), available_sectors)

\* Line 115: the per-date series side by side, then transposed: one row per
\* date, one column per label any of the series has, undefined where a
\* series lacks the label.
ConcatContributions(sector_vol_df, contribs) ==
    LET cols == SelectSeq(sector_vol_df.columns,
                          LAMBDA s : \E d \in Range(sector_vol_df.index) : s \in DOMAIN contribs[d])
    IN  [index |-> sector_vol_df.index, columns |-> cols,
         cell |-> [k \in Range(sector_vol_df.index) \X Range(cols) |->
                      IF k[2] \in DOMAIN contribs[k[1]] THEN contribs[k[1]][k[2]] ELSE NaN]]

\* The default weights of a sector map without labels: 1.0 / 0 raises.
ZeroDivisionError == <<"float division by zero">>

compute_sector_risk_contribution(stock_vol_df, sector_map, weights) ==
    IF IsEmpty(stock_vol_df) THEN Return(EmptyDF)
    ELSE LET sector_vol_df == compute_sector_volatility(stock_vol_df, sector_map, "mean").value
         IN  IF weights = <<>> /\ MapSectors(sector_map) = {} THEN Raise(ZeroDivisionError)
             ELSE LET normalized == NormalizeWeights(SetupWeights(sector_map, weights))
                      contribs == [d \in Range(sector_vol_df.index) |->
                                      DateContribution(sector_vol_df, normalized, d)]
                  IN  Return(ConcatContributions(sector_vol_df, contribs))

RiskTickers == <<"AAPL", "TSLA">>
RiskVals == {NaN, R(0), R(1), R(3)}
WeightVals == {R(-1), R(0), R(1), R(3)}
RiskMaps == UNION {[D -> Range(SectorOrder)] : D \in SUBSET Range(RiskTickers)}
\* weights: None (<<>>), or a dict over some of the sector labels.
RiskWeights ==
    {<<>>} \cup {<<w>> : w \in UNION {[D -> WeightVals] : D \in SUBSET Range(SectorOrder)}}

InitRisk ==
    /\ file = NoFile
    /\ last = NoCall
    /\ proc = <<>>
    /\ events = <<>>
    /\ \E w \in RiskWeights :
           \E m \in RiskMaps :
               \E n \in 0..MaxRiskDates :
                   \E cols \in SubSeqs(RiskTickers) :
                       \E f \in [Range(DateIndex(n)) \X Range(cols) -> RiskVals] :
                           inp = [stock_vol_df |-> Frame(n, cols, f),
                                  sector_map |-> m, weights |-> w]
    /\ out = NotCalled

ComputeSectorRiskContribution ==
    /\ ~out.done
    /\ out' = compute_sector_risk_contribution(inp.stock_vol_df, inp.sector_map, inp.weights)
    /\ UNCHANGED <<file, last, proc, events, inp>>

NextRisk == ComputeSectorRiskContribution

SpecRisk == InitRisk /\ [][NextRisk]_vars

(***************************************************************************)
(* compare_with_benchmark, src/sector_analysis.py lines 118-146.           *)
(* The benchmark series is [index, val]: its dates and a value per date.   *)
(***************************************************************************)
\* Line 133: Index.intersection, in the order of the sector matrix.
CommonDates(index, benchmark_index) ==
    SelectSeq(index, LAMBDA d : d \in Range(benchmark_index))

\* Lines 140-144: the rows of the common dates, the benchmark value of the
\* date subtracted from every sector column.
ExcessVol(sector_vol_df, benchmark_vol_series, common_dates) ==
    [index |-> common_dates, columns |-> sector_vol_df.columns,
     cell |-> [k \in Range(common_dates) \X Range(sector_vol_df.columns) |->
                  Sub(sector_vol_df.cell[k], benchmark_vol_series.val[k[1]])]]

compare_with_benchmark(sector_vol_df, benchmark_vol_series) ==
    IF IsEmpty(sector_vol_df) \/ Len(benchmark_vol_series.index) = 0
    THEN Return(EmptyDF)
    ELSE LET common_dates == CommonDates(sector_vol_df.index, benchmark_vol_series.index)
         IN  IF Len(common_dates) = 0 THEN Return(EmptyDF)
             ELSE Return(ExcessVol(sector_vol_df, benchmark_vol_series, common_dates))

BenchDates == SubSeq(DateLabels, 1, MaxBenchDates)
BenchSectorVals == {NaN, R(1), R(3)}
BenchVals == {NaN, R(1), R(2)}

InitBench ==
    /\ file = NoFile
    /\ last = NoCall
    /\ proc = <<>>
    /\ events = <<>>
    /\ \E index \in SubSeqs(BenchDates) :
           \E cols \in SubSeqs(RegimeSectors) :
               \E f \in [Range(index) \X Range(cols) -> BenchSectorVals] :
                   \E bindex \in SubSeqs(BenchDates) :
                       \E b \in [Range(bindex) -> BenchVals] :
                           inp = [sector_vol_df |->
                                      [index |-> index, columns |-> cols, cell |-> f],
                                  benchmark_vol_series |-> [index |-> bindex, val |-> b]]
    /\ out = NotCalled

CompareWithBenchmark ==
    /\ ~out.done
    /\ out' = compare_with_benchmark(inp.sector_vol_df, inp.benchmark_vol_series)
    /\ UNCHANGED <<file, last, proc, events, inp>>

NextBench == CompareWithBenchmark

SpecBench == InitBench /\ [][NextBench]_vars

(***************************************************************************)
(* cluster_sectors_by_volatility, src/sector_analysis.py lines 218-284.    *)
(* The returned dict is a function from its keys.  What scipy and          *)
(* scikit-learn compute is kept as a term naming the call and its inputs.  *)
(***************************************************************************)
EmptyDict == <<>>

\* Error messages are tuples of their parts.
ScipyRequired ==
    <<"scipy is required for hierarchical clustering. Please install with: pip install scipy">>

SklearnRequired ==
    <<"scikit-learn is required for k-means clustering. Please install with: pip install scikit-learn">>

\* Variant: both libraries are required, whatever the method.
DependencyErrorEither(method, scipy_available, sklearn_available) ==
    IF method \in {"hierarchical", "kmeans"} /\ ~scipy_available THEN ScipyRequired
    ELSE IF method \in {"hierarchical", "kmeans"} /\ ~sklearn_available
         THEN SklearnRequired
    ELSE <<>>

\* Lines 234-238: the message when the library of the method is missing,
\* <<>> otherwise.
DependencyError(method, scipy_available, sklearn_available) ==
    IF method = "hierarchical" /\ ~scipy_available THEN ScipyRequired
    ELSE IF method = "kmeans" /\ ~sklearn_available THEN SklearnRequired
    ELSE <<>>

\* Line 241: the sectors whose every value is defined, in column order.
ClusterData(sector_vol_df) ==
    SelectSeq(sector_vol_df.columns,
              LAMBDA s : \A d \in Range(sector_vol_df.index) :
                             ~IsNaN(sector_vol_df.cell[<<d, s>>]))

\* The observation vectors of the sectors of data.
Observations(sector_vol_df, data) ==
    [s \in Range(data) |->
        [i \in 1..Len(sector_vol_df.index) |-> sector_vol_df.cell[<<sector_vol_df.index[i], s>>]]]

\* Lines 250-263.
Hierarchical(sector_vol_df, data, n_clusters) ==
    LET obs == Observations(sector_vol_df, data)
    IN  ("sectors" :> data) @@ ("method" :> "hierarchical")
        @@ ("cluster_labels" :> <<"fcluster", obs, n_clusters>>)
        @@ ("linkage_matrix" :> <<"linkage", obs>>)
        @@ ("n_clusters" :> n_clusters)

NotEnoughSectors(len, n_clusters) ==
    <<"Number of sectors (", len, ") is less than n_clusters (", n_clusters, ")">>

\* Lines 267-279.
KMeans(sector_vol_df, data, n_clusters) ==
    LET obs == Observations(sector_vol_df, data)
    IN  IF Len(data) >= n_clusters
        THEN ("sectors" :> data) @@ ("method" :> "kmeans")
             @@ ("cluster_labels" :> <<"fit_predict", obs, n_clusters>>)
             @@ ("cluster_centers" :> <<"cluster_centers_", obs, n_clusters>>)
             @@ ("inertia" :> <<"inertia_", obs, n_clusters>>)
             @@ ("n_clusters" :> n_clusters)
        ELSE ("sectors" :> data) @@ ("error" :> NotEnoughSectors(Len(data), n_clusters))

MethodNotSupported(method) ==
    <<"Method '", method, "' not supported. Use 'hierarchical' or 'kmeans'.">>

cluster_sectors_by_volatility(sector_vol_df, method, n_clusters, scipy_available, sklearn_available) ==
    IF IsEmpty(sector_vol_df) THEN Return(EmptyDict)
    ELSE IF DependencyError(method, scipy_available, sklearn_available) # <<>>
         THEN Return("error" :> DependencyError(method, scipy_available, sklearn_available))
    ELSE LET data == ClusterData(sector_vol_df)
         IN  IF Len(data) < 2 THEN Return("error" :> <<"Insufficient data for clustering">>)
             ELSE IF method = "hierarchical"
                  THEN Return(Hierarchical(sector_vol_df, data, n_clusters))
             ELSE IF method = "kmeans"
                  THEN Return(KMeans(sector_vol_df, data, n_clusters))
             ELSE Return(("sectors" :> data) @@ ("error" :> MethodNotSupported(method)))

ClusterColumns == <<"Tech", "Energy", "Health">>
ClusterVals == {NaN, R(1), R(2)}
ClusterMethods == {"hierarchical", "kmeans", "dbscan"}

InitCluster ==
    /\ file = NoFile
    /\ last = NoCall
    /\ proc = <<>>
    /\ events = <<>>
    /\ \E n \in 0..MaxClusterDates :
           \E cols \in SubSeqs(ClusterColumns) :
               \E f \in [Range(DateIndex(n)) \X Range(cols) -> ClusterVals] :
                   \E method \in ClusterMethods :
                       \E n_clusters \in 1..MaxClusters :
                           \E scipy_available \in BOOLEAN :
                               \E sklearn_available \in BOOLEAN :
                                   inp = [sector_vol_df |-> Frame(n, cols, f),
                                          method |-> method, n_clusters |-> n_clusters,
                                          SCIPY_AVAILABLE |-> scipy_available,
                                          SKLEARN_AVAILABLE |-> sklearn_available]
    /\ out = NotCalled

ClusterSectors ==
    /\ ~out.done
    /\ out' = cluster_sectors_by_volatility(inp.sector_vol_df, inp.method, inp.n_clusters,
                                            inp.SCIPY_AVAILABLE, inp.SKLEARN_AVAILABLE)
    /\ UNCHANGED <<file, last, proc, events, inp>>

NextCluster == ClusterSectors

SpecCluster == InitCluster /\ [][NextCluster]_vars

(***************************************************************************)
(* rank_sectors_by_volatility, src/sector_analysis.py lines 148-191.       *)
(***************************************************************************)
\* An optional argument: <<>> is None, <<x>> is the value x.
None == <<>>
Some(x) == <<x>>

\* sector_vol_df.loc[date]: the row as a series of [key, val], in column order.
Row(df, date) ==
    [i \in 1..Len(df.columns) |->
        [key |-> df.columns[i], val |-> df.cell[<<date, df.columns[i]>>]]]

\* Variant: an undefined value counts as zero, so a sector with no defined
\* value gets the mean 0.
ColumnMeansFillZero(df) ==
    [i \in 1..Len(df.columns) |->
        [key |-> df.columns[i],
         val |-> IF df.index = <<>> THEN NaN
                 ELSE DivInt(Sum([j \in 1..Len(df.index) |->
                                     LET v == df.cell[<<df.index[j], df.columns[i]>>]
                                     IN  IF IsNaN(v) THEN R(0) ELSE v]),
                             Len(df.index))]]

\* sector_vol_df.mean(): each column's mean over the dates, undefined values
\* skipped.
ColumnMeans(df) ==
    [i \in 1..Len(df.columns) |->
        [key |-> df.columns[i],
         val |-> Mean([j \in 1..Len(df.index) |-> df.cell[<<df.index[j], df.columns[i]>>]])]]

SeriesDropNa(ser) == SelectSeq(ser, LAMBDA e : ~IsNaN(e.val))

\* Series.sort_values(ascending=False): descending by value, entries of
\* equal value in their original order.
RECURSIVE InsertDesc(_, _)
InsertDesc(e, ser) ==
    IF ser = <<>> THEN <<e>>
    ELSE IF Less(Head(ser).val, e.val) THEN <<e>> \o ser
    ELSE <<Head(ser)>> \o InsertDesc(e, Tail(ser))

\* Variant: ascending=True.
RECURSIVE InsertAscending(_, _)
InsertAscending(e, ser) ==
    IF ser = <<>> THEN <<e>>
    ELSE IF Less(e.val, Head(ser).val) THEN <<e>> \o ser
    ELSE <<Head(ser)>> \o InsertAscending(e, Tail(ser))

RECURSIVE SortValuesAsc(_)
SortValuesAsc(ser) ==
    IF ser = <<>> THEN <<>>
    ELSE InsertAscending(ser[Len(ser)], SortValuesAsc(SubSeq(ser, 1, Len(ser) - 1)))

RECURSIVE SortValuesDesc(_)
SortValuesDesc(ser) ==
    IF ser = <<>> THEN <<>>
    ELSE InsertDesc(ser[Len(ser)], SortValuesDesc(SubSeq(ser, 1, Len(ser) - 1)))

\* Series.head(n): the first n entries, or all but the last -n when n < 0.
SeriesHead(ser, n) ==
    LET k == IF n >= 0 THEN n ELSE Len(ser) + n
    IN  SubSeq(ser, 1, IF k > Len(ser) THEN Len(ser) ELSE IF k < 0 THEN 0 ELSE k)

\* Lines 169-170 and 181-182.
TopN(ranked, top_n) == IF top_n # None THEN SeriesHead(ranked, top_n[1]) ELSE ranked

\* Lines 185-189.
RankingFrame(ranked) ==
    [i \in 1..Len(ranked) |->
        [Sector |-> ranked[i].key, Average_Volatility |-> ranked[i].val, Rank |-> i]]

rank_sectors_by_volatility(sector_vol_df, date, top_n) ==
    IF IsEmpty(sector_vol_df) THEN Return(<<>>)
    ELSE IF date # None
         THEN IF date[1] \in Range(sector_vol_df.index)
              THEN Return(TopN(SortValuesDesc(SeriesDropNa(Row(sector_vol_df, date[1]))),
                               top_n))
              ELSE Return(<<>>)
    ELSE Return(RankingFrame(TopN(SortValuesDesc(SeriesDropNa(ColumnMeans(sector_vol_df))),
                                  top_n)))

RankSectors == <<"Tech", "Energy", "Health">>
RankVals == {NaN, R(1), R(2), R(3)}
AbsentDate == "1999-12-31"

InitRank ==
    /\ file = NoFile
    /\ last = NoCall
    /\ proc = <<>>
    /\ events = <<>>
    /\ \E n \in 0..MaxRankDates :
           \E cols \in SubSeqs(RankSectors) :
               \E f \in [Range(DateIndex(n)) \X Range(cols) -> RankVals] :
                   \E date \in {None} \cup {Some(d) : d \in Range(DateIndex(n)) \cup {AbsentDate}} :
                       \E top_n \in {None} \cup {Some(k) : k \in 0..MaxTopN} :
                           inp = [sector_vol_df |-> Frame(n, cols, f),
                                  date |-> date, top_n |-> top_n]
    /\ out = NotCalled

RankByDate ==
    /\ ~out.done
    /\ inp.date # None
    /\ out' = rank_sectors_by_volatility(inp.sector_vol_df, inp.date, inp.top_n)
    /\ UNCHANGED <<file, last, proc, events, inp>>

RankOverTime ==
    /\ ~out.done
    /\ inp.date = None
    /\ out' = rank_sectors_by_volatility(inp.sector_vol_df, inp.date, inp.top_n)
    /\ UNCHANGED <<file, last, proc, events, inp>>

NextRank == RankByDate \/ RankOverTime

SpecRank == InitRank /\ [][NextRank]_vars

\* rank_sectors_by_volatility called without a date, on matrices of several
\* dates.
MeanVals == {NaN, R(1), R(3)}

InitRankMean ==
    /\ file = NoFile
    /\ last = NoCall
    /\ proc = <<>>
    /\ events = <<>>
    /\ \E n \in 0..MaxMeanDates :
           \E cols \in SubSeqs(RankSectors) :
               \E f \in [Range(DateIndex(n)) \X Range(cols) -> MeanVals] :
                   \E top_n \in {None} \cup {Some(k) : k \in 0..MaxTopN} :
                       inp = [sector_vol_df |-> Frame(n, cols, f),
                              date |-> None, top_n |-> top_n]
    /\ out = NotCalled

NextRankMean == RankOverTime

SpecRankMean == InitRankMean /\ [][NextRankMean]_vars

(***************************************************************************)
(* compute_sector_correlation, src/sector_analysis.py lines 193-216.       *)
(* A correlation coefficient is kept as a term naming the method and the   *)
(* two columns' values.                                                    *)
(***************************************************************************)
\* Line 208: the columns with at least one defined value.
DropAllNaColumns(df) ==
    SelectSeq(df.columns, LAMBDA s : \E d \in Range(df.index) : ~IsNaN(df.cell[<<d, s>>]))

Column(df, s) == [i \in 1..Len(df.index) |-> df.cell[<<df.index[i], s>>]]

CorrMethods == {"pearson", "spearman", "kendall"}

compute_sector_correlation(sector_vol_df, method) ==
    IF IsEmpty(sector_vol_df) THEN Return(EmptyDF)
    ELSE LET cols == DropAllNaColumns(sector_vol_df)
         IN  IF Len(cols) = 0 THEN Return(EmptyDF)
             ELSE IF method \notin CorrMethods
                  THEN Raise(<<"method must be either 'pearson', 'spearman', 'kendall', or a callable, '",
                               method, "' was supplied">>)
             ELSE Return([index |-> cols, columns |-> cols,
                          cell |-> [k \in Range(cols) \X Range(cols) |->
                                       <<"corr", method, Column(sector_vol_df, k[1]),
                                         Column(sector_vol_df, k[2])>>]])

(***************************************************************************)
(* The seven operations of sector_analysis.py on an empty matrix: a matrix *)
(* without dates, without columns, or without both.                        *)
(***************************************************************************)
EmptyMatrices ==
    {Frame(0, cols, <<>>) : cols \in SubSeqs(StockTickers)}
        \cup {Frame(n, <<>>, <<>>) : n \in 0..MaxEmptyDates}

EmptyCaseMethods == {"mean", "mode", "kmeans"}
EmptyCaseMaps == {<<>>, [t \in {"AAPL"} |-> "Technology"],
                  [t \in Range(StockTickers) |-> "Technology"]}
EmptyCaseWeights == {None, Some([s \in {"Technology"} |-> R(0)])}
EmptyCaseBenchmarks ==
    {[index |-> <<>>, val |-> <<>>],
     [index |-> DateIndex(1), val |-> [d \in Range(DateIndex(1)) |-> R(1)]]}
EmptyCaseThresholds == {<<R(1), R(3)>>, <<R(3), R(1)>>}

InitEmpty ==
    /\ file = NoFile
    /\ last = NoCall
    /\ proc = <<>>
    /\ events = <<>>
    /\ \E df \in EmptyMatrices :
         \E method \in EmptyCaseMethods :
           \E sector_map \in EmptyCaseMaps :
             \E weights \in EmptyCaseWeights :
               \E benchmark \in EmptyCaseBenchmarks :
                 \E date \in {None, Some(DateLabels[1])} :
                   \E top_n \in {None, Some(MaxTopN)} :
                     \E n_clusters \in {1, MaxClusters} :
                       \E thresholds \in EmptyCaseThresholds :
                         \E available \in BOOLEAN :
                           inp = [df |-> df, method |-> method, sector_map |-> sector_map,
                                  weights |-> weights, benchmark |-> benchmark,
                                  date |-> date, top_n |-> top_n,
                                  n_clusters |-> n_clusters, thresholds |-> thresholds,
                                  available |-> available]
    /\ out = NotCalled

OnEmptySectorVolatility ==
    /\ ~out.done
    /\ out' = compute_sector_volatility(inp.df, inp.sector_map, inp.method)
    /\ events' = <<"compute_sector_volatility">>
    /\ UNCHANGED <<file, last, proc, inp>>

OnEmptyRiskContribution ==
    /\ ~out.done
    /\ out' = compute_sector_risk_contribution(inp.df, inp.sector_map, inp.weights)
    /\ events' = <<"compute_sector_risk_contribution">>
    /\ UNCHANGED <<file, last, proc, inp>>

OnEmptyBenchmark ==
    /\ ~out.done
    /\ out' = compare_with_benchmark(inp.df, inp.benchmark)
    /\ events' = <<"compare_with_benchmark">>
    /\ UNCHANGED <<file, last, proc, inp>>

OnEmptyRank ==
    /\ ~out.done
    /\ out' = rank_sectors_by_volatility(inp.df, inp.date, inp.top_n)
    /\ events' = <<"rank_sectors_by_volatility">>
    /\ UNCHANGED <<file, last, proc, inp>>

OnEmptyCorrelation ==
    /\ ~out.done
    /\ out' = compute_sector_correlation(inp.df, inp.method)
    /\ events' = <<"compute_sector_correlation">>
    /\ UNCHANGED <<file, last, proc, inp>>

OnEmptyCluster ==
    /\ ~out.done
    /\ out' = cluster_sectors_by_volatility(inp.df, inp.method, inp.n_clusters,
                                            inp.available, inp.available)
    /\ events' = <<"cluster_sectors_by_volatility">>
    /\ UNCHANGED <<file, last, proc, inp>>

OnEmptyRegimes ==
    /\ ~out.done
    /\ out' = detect_sector_volatility_regimes(inp.df, inp.thresholds)
    /\ events' = <<"detect_sector_volatility_regimes">>
    /\ UNCHANGED <<file, last, proc, inp>>

NextEmpty ==
    \/ OnEmptySectorVolatility
    \/ OnEmptyRiskContribution
    \/ OnEmptyBenchmark
    \/ OnEmptyRank
    \/ OnEmptyCorrelation
    \/ OnEmptyCluster
    \/ OnEmptyRegimes

SpecEmpty == InitEmpty /\ [][NextEmpty]_vars

(***************************************************************************)
(* The numbers of src/volatility.py.  A finite value is a polynomial in    *)
(* L = ln 2 and M = ln(11/10) with fraction coefficients, [kind, lo, c]    *)
(* standing for c[1]*T^lo + c[2]*T^(lo+1) + ..., where T^(i + 16*j) is     *)
(* L^i * M^j.  The price ratios below are products of powers of 2 and of   *)
(* 11/10, 0, negative or missing, so every logarithm taken is k*L + m*M,   *)
(* an infinity or NaN.  A square root is kept as its radicand.             *)
(***************************************************************************)
XNaN == [kind |-> "nan", lo |-> 0, c |-> <<>>]

XInf(sign) == [kind |-> IF sign > 0 THEN "inf" ELSE "-inf", lo |-> 0, c |-> <<>>]

RECURSIVE StripHigh(_)
StripHigh(c) ==
    IF c = <<>> THEN <<>>
    ELSE IF c[Len(c)] = R(0) THEN StripHigh(SubSeq(c, 1, Len(c) - 1))
    ELSE c

\* The finite value with coefficients c from exponent lo on, without zero
\* coefficients at either end.
RECURSIVE XFin(_, _)
XFin(lo, c) ==
    IF c = <<>> THEN [kind |-> "fin", lo |-> 0, c |-> <<>>]
    ELSE IF Head(c) = R(0) THEN XFin(lo + 1, Tail(c))
    ELSE [kind |-> "fin", lo |-> lo, c |-> StripHigh(c)]

XConst(q) == XFin(0, <<q>>)

XInt(k) == XConst(R(k))

\* np.log(2).
XLn2 == XFin(1, <<R(1)>>)

XIsNaN(x) == x.kind = "nan"

XIsFinite(x) == x.kind = "fin"

XIsZero(x) == x.kind = "fin" /\ x.c = <<>>

Coef(x, e) == IF e >= x.lo /\ e < x.lo + Len(x.c) THEN x.c[e - x.lo + 1] ELSE R(0)

\* The term L^i * M^j sits at exponent i + 16 * j, with -8 <= i < 8.
ExpM(e) == (e + 8) \div 16

ExpL(e) == e - 16 * ExpM(e)

\* np.log(110 / 100).
XLn11_10 == XFin(16, <<R(1)>>)

\* Rational bounds of ln 2 and of ln(11/10).
Ln2Lo == Frac(69, 100)
Ln2Hi == Frac(7, 10)
Ln11_10Lo == Frac(9, 100)
Ln11_10Hi == Frac(1, 10)

RECURSIVE RPow(_, _)
RPow(q, k) == IF k = 0 THEN R(1) ELSE Mul(q, RPow(q, k - 1))

MinOf(S) == CHOOSE m \in S : \A k \in S : m <= k

\* A bound of x / (L^i0 * M^j0), i0 and j0 the least exponents of L and M
\* in x, from the bounds of L and M: the lower bound when low, the upper
\* bound otherwise.
PolyBound(x, low) ==
    LET terms == {k \in 1..Len(x.c) : x.c[k] # R(0)}
        i0 == MinOf({ExpL(x.lo + k - 1) : k \in terms})
        j0 == MinOf({ExpM(x.lo + k - 1) : k \in terms})
    IN  Sum([k \in 1..Len(x.c) |->
                LET least == (Sign(x.c[k]) > 0) = low
                IN  IF k \notin terms THEN R(0)
                    ELSE Mul(x.c[k],
                             Mul(RPow(IF least THEN Ln2Lo ELSE Ln2Hi,
                                      ExpL(x.lo + k - 1) - i0),
                                 RPow(IF least THEN Ln11_10Lo ELSE Ln11_10Hi,
                                      ExpM(x.lo + k - 1) - j0)))])

\* The sign of a finite value or an infinity.  L and M are positive, so a
\* value of one term has the sign of its coefficient; the bounds of L and
\* M decide the others (they are tight enough for every value met below,
\* else the CHOOSE fails).
XSign(x) ==
    IF x.kind = "inf" THEN 1
    ELSE IF x.kind = "-inf" THEN -1
    ELSE IF x.c = <<>> THEN 0
    ELSE IF Len(x.c) = 1 THEN Sign(x.c[1])
    ELSE IF Sign(PolyBound(x, TRUE)) > 0 THEN 1
    ELSE IF Sign(PolyBound(x, FALSE)) < 0 THEN -1
    ELSE CHOOSE s \in {} : TRUE

XNeg(x) ==
    IF x.kind = "nan" THEN x
    ELSE IF x.kind = "fin" THEN [x EXCEPT !.c = [i \in 1..Len(x.c) |-> Neg(x.c[i])]]
    ELSE XInf(-XSign(x))

XAdd(a, b) ==
    IF XIsNaN(a) \/ XIsNaN(b) THEN XNaN
    ELSE IF ~XIsFinite(a) /\ ~XIsFinite(b) THEN (IF a = b THEN a ELSE XNaN)
    ELSE IF ~XIsFinite(a) THEN a
    ELSE IF ~XIsFinite(b) THEN b
    ELSE IF XIsZero(a) THEN b
    ELSE IF XIsZero(b) THEN a
    ELSE LET lo == IF a.lo < b.lo THEN a.lo ELSE b.lo
             ha == a.lo + Len(a.c)
             hb == b.lo + Len(b.c)
             hi == IF ha > hb THEN ha ELSE hb
         IN  XFin(lo, [i \in 1..(hi - lo) |-> Add(Coef(a, lo + i - 1), Coef(b, lo + i - 1))])

XSub(a, b) == XAdd(a, XNeg(b))

XMul(a, b) ==
    IF XIsNaN(a) \/ XIsNaN(b) THEN XNaN
    ELSE IF ~XIsFinite(a) \/ ~XIsFinite(b)
         THEN (IF XSign(a) * XSign(b) = 0 THEN XNaN ELSE XInf(XSign(a) * XSign(b)))
    ELSE IF XIsZero(a) \/ XIsZero(b) THEN XInt(0)
    ELSE XFin(a.lo + b.lo,
              [k \in 1..(Len(a.c) + Len(b.c) - 1) |->
                  Sum([i \in 1..Len(a.c) |->
                          IF k - i + 1 >= 1 /\ k - i + 1 <= Len(b.c)
                          THEN Mul(a.c[i], b.c[k - i + 1])
                          ELSE R(0)])])

\* a / b.  Every finite divisor below has one term (a price, a count,
\* 4 * ln 2); a divisor of more terms is not handled.
XDiv(a, b) ==
    IF XIsNaN(a) \/ XIsNaN(b) THEN XNaN
    ELSE IF ~XIsFinite(b) THEN (IF XIsFinite(a) THEN XInt(0) ELSE XNaN)
    ELSE IF XIsZero(b) THEN (IF XSign(a) = 0 THEN XNaN ELSE XInf(XSign(a)))
    ELSE IF ~XIsFinite(a) THEN XInf(XSign(a) * XSign(b))
    ELSE IF Len(b.c) > 1 THEN CHOOSE q \in {} : TRUE
    ELSE XFin(a.lo - b.lo, [i \in 1..Len(a.c) |-> Div(a.c[i], b.c[1])])

RECURSIVE XSum(_)
XSum(xs) == IF xs = <<>> THEN XInt(0) ELSE XAdd(Head(xs), XSum(Tail(xs)))

\* k for n = 2^k; n is a power of 2 wherever this is used.
RECURSIVE Log2(_)
Log2(n) ==
    IF n = 1 THEN 0
    ELSE IF n % 2 = 0 THEN 1 + Log2(n \div 2)
    ELSE CHOOSE k \in {} : TRUE

\* The number of factors 11 of n.
RECURSIVE Factors11(_)
Factors11(n) == IF n % 11 = 0 THEN 1 + Factors11(n \div 11) ELSE 0

\* ln q for q = 2^k * (11/10)^m: k * L + m * M.
LogOfFraction(q) ==
    LET m == Factors11(q.n) - Factors11(q.d)
        rest == IF m >= 0 THEN Mul(q, RPow(Frac(10, 11), m)) ELSE Mul(q, RPow(Frac(11, 10), -m))
    IN  XAdd(XMul(XInt(Log2(rest.n) - Log2(rest.d)), XLn2), XMul(XInt(m), XLn11_10))

\* np.log: -inf at 0, NaN below 0, ln q at a positive fraction q.
XLog(x) ==
    IF XIsNaN(x) \/ x.kind = "-inf" THEN XNaN
    ELSE IF x.kind = "inf" THEN x
    ELSE IF XIsZero(x) THEN XInf(-1)
    ELSE IF XSign(x) < 0 THEN XNaN
    ELSE IF x.lo # 0 \/ Len(x.c) # 1 THEN CHOOSE k \in {} : TRUE
    ELSE LogOfFraction(x.c[1])

\* Variant: the square root of the absolute value.
XSqrtAbs(x) ==
    IF XIsNaN(x) THEN [rad |-> XNaN]
    ELSE IF XSign(x) < 0 THEN [rad |-> XNeg(x)]
    ELSE [rad |-> x]

\* np.sqrt, as [rad |-> radicand]: NaN below 0.
XSqrt(x) ==
    IF XIsNaN(x) \/ XSign(x) < 0 THEN [rad |-> XNaN] ELSE [rad |-> x]

\* The product of two square roots.
RootMul(r, s) == [rad |-> XMul(r.rad, s.rad)]

RootIsNaN(r) == XIsNaN(r.rad)

(***************************************************************************)
(* src/volatility.py lines 4-66.  A price table is a sequence of bars      *)
(* [Open, High, Low, Close, AdjClose]; a series is a sequence of values    *)
(* over the same index.                                                    *)
(***************************************************************************)
ColumnOf(df, name) == [i \in 1..Len(df) |-> df[i][name]]

\* Series.shift(1).
Shift1(ser) == [i \in 1..Len(ser) |-> IF i = 1 THEN XNaN ELSE ser[i - 1]]

\* Forward fill: a missing value takes the last value before it.
RECURSIVE FFill(_)
FFill(ser) ==
    IF Len(ser) <= 1 THEN ser
    ELSE LET init == FFill(SubSeq(ser, 1, Len(ser) - 1))
             x == ser[Len(ser)]
         IN  Append(init, IF XIsNaN(x) THEN init[Len(init)] ELSE x)

\* Series.pct_change(): data / data.shift(1) - 1, where data is the series
\* forward-filled by the pandas versions whose default fill_method is 'pad'
\* and the series itself by the others.
PctChange(ser, pad) ==
    LET data == IF pad THEN FFill(ser) ELSE ser
        shifted == Shift1(data)
    IN  [i \in 1..Len(ser) |-> XSub(XDiv(data[i], shifted[i]), XInt(1))]

\* Lines 4-21.
compute_daily_returns(df, use_log, pad) ==
    LET adj == ColumnOf(df, "AdjClose")
    IN  IF use_log
        THEN [i \in 1..Len(adj) |-> XLog(XDiv(adj[i], Shift1(adj)[i]))]
        ELSE PctChange(adj, pad)

\* The values rolling(window) aggregates at position i: an infinity counts
\* as missing, fewer than window defined values give no result.
WindowAt(ser, window, i) == SubSeq(ser, i - window + 1, i)

FullWindow(ser, window, i) ==
    i >= window /\ \A j \in (i - window + 1)..i : XIsFinite(ser[j])

\* rolling(window).mean().
RollingMean(ser, window) ==
    [i \in 1..Len(ser) |->
        IF FullWindow(ser, window, i)
        THEN XDiv(XSum(WindowAt(ser, window, i)), XInt(window))
        ELSE XNaN]

\* The sample variance (ddof = 1) of a full window.
SampleVar(vals) ==
    LET mean == XDiv(XSum(vals), XInt(Len(vals)))
        sq == [j \in 1..Len(vals) |-> XMul(XSub(vals[j], mean), XSub(vals[j], mean))]
    IN  IF Len(vals) <= 1 THEN XNaN ELSE XDiv(XSum(sq), XInt(Len(vals) - 1))

\* Variant: min_periods = 2, a window that is not full aggregates the
\* defined values it has.
RollingStdPartial(ser, window) ==
    [i \in 1..Len(ser) |->
        LET from == IF i - window + 1 < 1 THEN 1 ELSE i - window + 1
            vals == SelectSeq(SubSeq(ser, from, i), LAMBDA x : XIsFinite(x))
        IN  XSqrt(SampleVar(vals))]

\* rolling(window).std().
RollingStd(ser, window) ==
    [i \in 1..Len(ser) |->
        IF FullWindow(ser, window, i)
        THEN XSqrt(SampleVar(WindowAt(ser, window, i)))
        ELSE [rad |-> XNaN]]

\* Variant: the factor is 252, not its square root.
AnnualizeLinear(vol, annualize) ==
    IF annualize
    THEN [i \in 1..Len(vol) |-> RootMul(vol[i], XSqrt(XInt(252 * 252)))]
    ELSE vol

\* Lines 33-34, 48-49, 64-65: series *= np.sqrt(252).
Annualize(vol, annualize) ==
    IF annualize
    THEN [i \in 1..Len(vol) |-> RootMul(vol[i], XSqrt(XInt(252)))]
    ELSE vol

\* Lines 23-35.
historical_volatility(df, window, annualize, pad) ==
    LET returns == compute_daily_returns(df, FALSE, pad)
    IN  Annualize(RollingStd(returns, window), annualize)

\* Lines 37-50.
parkinson_volatility(df, window, annualize) ==
    LET ln_high_low == [i \in 1..Len(df) |-> XLog(XDiv(df[i].High, df[i].Low))]
        mean == RollingMean(ln_high_low, window)
        park_vol == [i \in 1..Len(df) |->
                        XSqrt(XMul(XDiv(XInt(1), XMul(XInt(4), XLn2)), mean[i]))]
    IN  Annualize(park_vol, annualize)

\* Variant: the radicand averaged over the window, as the other estimators
\* do.
GarmanKlassWindowed(df, window, annualize) ==
    LET hl == [i \in 1..Len(df) |-> XLog(XDiv(df[i].High, df[i].Low))]
        co == [i \in 1..Len(df) |-> XLog(XDiv(df[i].Close, df[i].Open))]
        rad == [i \in 1..Len(df) |->
                   XSub(XMul(XConst(Frac(1, 2)), XMul(hl[i], hl[i])),
                        XMul(XSub(XMul(XInt(2), XLn2), XInt(1)), XMul(co[i], co[i])))]
        mean == RollingMean(rad, window)
    IN  Annualize([i \in 1..Len(df) |-> XSqrt(mean[i])], annualize)

\* Variant: the two logarithms exchanged.
GarmanKlassExchanged(df, window, annualize) ==
    LET hl == [i \in 1..Len(df) |-> XLog(XDiv(df[i].High, df[i].Low))]
        co == [i \in 1..Len(df) |-> XLog(XDiv(df[i].Close, df[i].Open))]
        gk == [i \in 1..Len(df) |->
                  XSqrt(XSub(XMul(XConst(Frac(1, 2)), XMul(co[i], co[i])),
                             XMul(XSub(XMul(XInt(2), XLn2), XInt(1)),
                                  XMul(hl[i], hl[i]))))]
    IN  Annualize(gk, annualize)

\* Lines 52-66.
garman_klass_volatility(df, window, annualize) ==
    LET hl == [i \in 1..Len(df) |-> XLog(XDiv(df[i].High, df[i].Low))]
        co == [i \in 1..Len(df) |-> XLog(XDiv(df[i].Close, df[i].Open))]
        gk == [i \in 1..Len(df) |->
                  XSqrt(XSub(XMul(XConst(Frac(1, 2)), XMul(hl[i], hl[i])),
                             XMul(XSub(XMul(XInt(2), XLn2), XInt(1)),
                                  XMul(co[i], co[i]))))]
    IN  Annualize(gk, annualize)

Bar(o, h, l, c, a) == [Open |-> o, High |-> h, Low |-> l, Close |-> c, AdjClose |-> a]

\* A flat bar, a wide falling bar, a bar whose close lies outside its
\* range, a bar with Low = 0 and a zero adjusted close, a bar with
\* High < Low, a bar with a negative Low and no adjusted close, and the bar
\* Open 100, High 110, Low 100, Close 100 (adjusted close 2, to keep the
\* returns small).
Bars ==
    {Bar(XInt(1), XInt(1), XInt(1), XInt(1), XInt(1)),
     Bar(XInt(2), XInt(4), XInt(1), XInt(1), XInt(1)),
     Bar(XInt(1), XInt(2), XInt(1), XInt(4), XInt(4)),
     Bar(XInt(1), XInt(2), XInt(0), XInt(1), XInt(0)),
     Bar(XInt(1), XInt(1), XInt(2), XInt(1), XInt(2)),
     Bar(XInt(1), XInt(2), XInt(-1), XInt(1), XNaN),
     Bar(XInt(100), XInt(110), XInt(100), XInt(100), XInt(2))}

InitVol ==
    /\ file = NoFile
    /\ last = NoCall
    /\ proc = <<>>
    /\ events = <<>>
    /\ \E df \in SeqsUpTo(Bars, MaxBars) :
           \E window \in 1..MaxWindow :
               \E annualize \in BOOLEAN :
                   inp = [df |-> df, window |-> window, annualize |-> annualize]
    /\ out = NotCalled

\* The installed pandas decides whether pct_change forward-fills.
HistoricalVolatility ==
    /\ ~out.done
    /\ \E pad \in BOOLEAN :
           out' = Return(historical_volatility(inp.df, inp.window, inp.annualize, pad))
    /\ events' = <<"historical_volatility">>
    /\ UNCHANGED <<file, last, proc, inp>>

ParkinsonVolatility ==
    /\ ~out.done
    /\ out' = Return(parkinson_volatility(inp.df, inp.window, inp.annualize))
    /\ events' = <<"parkinson_volatility">>
    /\ UNCHANGED <<file, last, proc, inp>>

GarmanKlassVolatility ==
    /\ ~out.done
    /\ out' = Return(garman_klass_volatility(inp.df, inp.window, inp.annualize))
    /\ events' = <<"garman_klass_volatility">>
    /\ UNCHANGED <<file, last, proc, inp>>

NextVol == HistoricalVolatility \/ ParkinsonVolatility \/ GarmanKlassVolatility

SpecVol == InitVol /\ [][NextVol]_vars

(***************************************************************************)
(* beta_adjusted_volatility, src/volatility.py lines 68-78, and repeated   *)
(* calls of the computation functions on arguments the caller keeps.  A    *)
(* table of beta_adjusted_volatility is a function from column names to    *)
(* columns.                                                                *)
(***************************************************************************)
\* np.cov(x, y)[0, 1]: the sample covariance (ddof = 1).
Covariance(x, y) ==
    LET n == Len(x)
        mx == Div(Sum(x), R(n))
        my == Div(Sum(y), R(n))
    IN  Div(Sum([i \in 1..n |-> Mul(Sub(x[i], mx), Sub(y[i], my))]), R(n - 1))

\* The square root of a square number.
ISqrt(n) == CHOOSE k \in 0..n : k * k = n

\* Series.std(), for a series whose variance is the square of a fraction.
Std(x) ==
    LET var == Covariance(x, x)
    IN  IF IsNaN(var) THEN NaN ELSE Frac(ISqrt(var.n), ISqrt(var.d))

\* Lines 75-78: the table after line 77 has assigned the column 'Adjusted
\* Volatility' into stock_vol_df; line 78 returns that same table.
beta_adjusted_volatility(stock_vol_df, benchmark_returns) ==
    LET beta == Div(Covariance(stock_vol_df["Returns"], benchmark_returns),
                    Covariance(benchmark_returns, benchmark_returns))
        vol == stock_vol_df["Volatility"]
        adjusted == [i \in 1..Len(vol) |->
                        Sub(vol[i], Mul(beta, Sub(Std(benchmark_returns), vol[i])))]
    IN  ("Adjusted Volatility" :> adjusted) @@ stock_vol_df

PureReturns == {<<R(0), R(1), R(2)>>, <<R(2), R(1), R(0)>>, <<R(1), R(0), R(1)>>}
PureVolatilities == {<<R(1), R(1), R(1)>>, <<R(1), R(2), R(3)>>}
PureBenchmarkReturns == {<<R(0), R(1), R(2)>>, <<R(0), R(2), R(4)>>, <<R(1), R(1), R(1)>>}

\* One date, the columns AAPL and TSLA.
PureMatrices ==
    {Frame(1, RiskTickers, f) : f \in [Range(DateIndex(1)) \X Range(RiskTickers) -> {R(1), R(3)}]}

PureSectorMaps ==
    {("AAPL" :> "Technology") @@ ("TSLA" :> "Automotive"),
     ("AAPL" :> "Technology") @@ ("TSLA" :> "Technology")}

PureBenchmarks ==
    {[index |-> DateIndex(1), val |-> [d \in Range(DateIndex(1)) |-> R(1)]],
     [index |-> <<>>, val |-> <<>>]}

\* The arguments a caller holds: a price table with a window and a flag, or
\* a returns/volatility table with benchmark returns, or a volatility
\* matrix with its sector map, its sector matrix and a benchmark series.
\* pad is the behaviour of the installed pandas.
InitPure ==
    /\ file = NoFile
    /\ last = NoCall
    /\ proc = <<>>
    /\ events = <<>>
    /\ \/ \E df \in SeqsUpTo(Bars, MaxPureBars) :
              \E window \in 1..MaxPureBars :
                  \E annualize \in BOOLEAN :
                      \E pad \in BOOLEAN :
                          inp = [family |-> "price", df |-> df, window |-> window,
                                 annualize |-> annualize, pad |-> pad]
       \/ \E returns \in PureReturns :
              \E vol \in PureVolatilities :
                  \E bench \in PureBenchmarkReturns :
                      inp = [family |-> "beta",
                             stock_vol_df |-> ("Returns" :> returns) @@ ("Volatility" :> vol),
                             benchmark_returns |-> bench]
       \/ \E m \in PureMatrices :
              \E sector_map \in PureSectorMaps :
                  \E b \in PureBenchmarks :
                      inp = [family |-> "sector", stock_vol_df |-> m,
                             sector_map |-> sector_map, weights |-> <<>>,
                             sector_vol_df |->
                                 compute_sector_volatility(m, sector_map, "mean").value,
                             benchmark_vol_series |-> b]
    /\ out = NotCalled

\* A call: its result is returned and logged with the arguments as they
\* were before and as they are after the call.
Called(op, result, after) ==
    /\ Len(proc) < MaxCalls
    /\ out' = result
    /\ inp' = after
    /\ proc' = Append(proc, [op |-> op, args |-> inp, after |-> after, result |-> result])
    /\ UNCHANGED <<file, last, events>>

CallHistoricalVolatility ==
    /\ inp.family = "price"
    /\ Called("historical_volatility",
              Return(historical_volatility(inp.df, inp.window, inp.annualize, inp.pad)),
              inp)

CallParkinsonVolatility ==
    /\ inp.family = "price"
    /\ Called("parkinson_volatility",
              Return(parkinson_volatility(inp.df, inp.window, inp.annualize)), inp)

CallGarmanKlassVolatility ==
    /\ inp.family = "price"
    /\ Called("garman_klass_volatility",
              Return(garman_klass_volatility(inp.df, inp.window, inp.annualize)), inp)

\* Line 77 writes into the caller's table.
CallBetaAdjustedVolatility ==
    /\ inp.family = "beta"
    /\ LET table == beta_adjusted_volatility(inp.stock_vol_df, inp.benchmark_returns)
       IN  Called("beta_adjusted_volatility", Return(table),
                  [inp EXCEPT !.stock_vol_df = table])

CallSectorRiskContribution ==
    /\ inp.family = "sector"
    /\ Called("compute_sector_risk_contribution",
              compute_sector_risk_contribution(inp.stock_vol_df, inp.sector_map, inp.weights),
              inp)

CallCompareWithBenchmark ==
    /\ inp.family = "sector"
    /\ Called("compare_with_benchmark",
              compare_with_benchmark(inp.sector_vol_df, inp.benchmark_vol_series), inp)

NextPure ==
    \/ CallHistoricalVolatility
    \/ CallParkinsonVolatility
    \/ CallGarmanKlassVolatility
    \/ CallBetaAdjustedVolatility
    \/ CallSectorRiskContribution
    \/ CallCompareWithBenchmark

SpecPure == InitPure /\ [][NextPure]_vars

(***************************************************************************)
(* fetch_ohlcv, src/data_fetcher.py lines 66-124.  The bar of a ticker on  *)
(* a date is the pair <<ticker, date>>; a table keyed by (Date, Ticker) is *)
(* a sequence of rows [Date, Ticker, bar].  What yf.download returns is    *)
(* [multi, groups] for ticker-grouped columns, groups mapping the tickers  *)
(* present to their rows, or [multi |-> FALSE, rows] for plain columns.    *)
(***************************************************************************)
FetchTickers == {"AAPL", "GOOGL", "ZZZZ"}

\* The tickers the provider has data for.
Resolved == {"AAPL", "GOOGL"}

FetchDates == SubSeq(DateLabels, 1, MaxFetchDates)

NaNBar == <<"NaN">>

\* The rows of a ticker the provider resolved.
TickerRows(ticker) ==
    [i \in 1..Len(FetchDates) |-> [Date |-> FetchDates[i], bar |-> <<ticker, FetchDates[i]>>]]

\* The rows of all-NaN cells under the dates of the resolved tickers.
PlaceholderRows(requested) ==
    IF requested \cap Resolved = {} THEN <<>>
    ELSE [i \in 1..Len(FetchDates) |-> [Date |-> FetchDates[i], bar |-> NaNBar]]

\* yf.download(tickers, group_by='ticker'): the library decides whether one
\* ticker comes back under plain columns (flat) and whether a ticker it
\* could not resolve is left out or comes back as a group of NaN cells
\* (placeholders).
Download(tickers, flat, placeholders) ==
    LET requested == Range(tickers)
        present == {t \in requested : t \in Resolved \/ placeholders}
        groups == [t \in present |->
                      IF t \in Resolved THEN TickerRows(t) ELSE PlaceholderRows(requested)]
    IN  IF Cardinality(requested) = 1 /\ flat
        THEN LET t == CHOOSE t \in requested : TRUE
             IN  [multi |-> FALSE,
                  rows |-> IF t \in Resolved THEN TickerRows(t) ELSE <<>>,
                  groups |-> <<>>]
        ELSE [multi |-> TRUE, rows |-> <<>>, groups |-> groups]

\* reset_index, df['Ticker'] = ticker, set_index(['Date', 'Ticker']).
KeyByTicker(rows, ticker) ==
    [i \in 1..Len(rows) |-> [Date |-> rows[i].Date, Ticker |-> ticker, bar |-> rows[i].bar]]

\* Lines 98-113: one frame per ticker of the list, a KeyError skips it.
RECURSIVE TickerFrames(_, _)
TickerFrames(tickers, data) ==
    IF tickers = <<>> THEN <<>>
    ELSE LET ticker == Head(tickers)
             rest == TickerFrames(Tail(tickers), data)
         IN  IF ~data.multi THEN <<KeyByTicker(data.rows, ticker)>> \o rest
             ELSE IF ticker \in DOMAIN data.groups
                  THEN <<KeyByTicker(data.groups[ticker], ticker)>> \o rest
             ELSE rest

\* pd.concat(frames).
RECURSIVE ConcatFrames(_)
ConcatFrames(frames) ==
    IF frames = <<>> THEN <<>> ELSE Head(frames) \o ConcatFrames(Tail(frames))

NoValidData == <<"No valid data found for any of the provided tickers">>

OnlyYfinance == <<"Only yfinance provider is currently supported">>

FetchRaise(m) == [done |-> TRUE, raised |-> TRUE, msg |-> m, value |-> <<>>]

\* Lines 80-90: the table of the only ticker of the list; with grouped
\* columns that lack the ticker it is the whole (then empty) table.
SingleTickerData(ticker, data) ==
    IF ~data.multi THEN data.rows
    ELSE IF ticker \in DOMAIN data.groups THEN data.groups[ticker]
    ELSE <<>>

\* Lines 66-124.
fetch_ohlcv(tickers, provider, data) ==
    IF provider # "yfinance" THEN FetchRaise(OnlyYfinance)
    ELSE IF Len(tickers) = 1
    THEN Return(KeyByTicker(SingleTickerData(tickers[1], data), tickers[1]))
    ELSE LET frames == TickerFrames(tickers, data)
         IN  IF frames # <<>> THEN Return(ConcatFrames(frames))
             ELSE FetchRaise(NoValidData)

InitFetch ==
    /\ file = NoFile
    /\ last = NoCall
    /\ proc = <<>>
    /\ events = <<>>
    /\ \E tickers \in SeqsUpTo(FetchTickers, MaxFetchReq) :
           \E provider \in {"yfinance", "alphavantage"} :
               \E flat \in BOOLEAN :
                   \E placeholders \in BOOLEAN :
                       inp = [tickers |-> tickers, provider |-> provider,
                              flat |-> flat, placeholders |-> placeholders]
    /\ out = NotCalled

FetchOhlcv ==
    /\ ~out.done
    /\ out' = fetch_ohlcv(inp.tickers, inp.provider,
                          Download(inp.tickers, inp.flat, inp.placeholders))
    /\ UNCHANGED <<file, last, proc, events, inp>>

NextFetch == FetchOhlcv

SpecFetch == InitFetch /\ [][NextFetch]_vars

(***************************************************************************)
(* get_sector_mapping, lines 9-64, call after call, with the lookups of    *)
(* each call and the way its write ended on record.  A write that fails    *)
(* raises inside to_csv either before the file is opened (the file is as   *)
(* it was) or after it was opened for writing, which truncates it (the     *)
(* file holds the rows written so far).                                    *)
(***************************************************************************)
CacheTickers == {"AAPL", "NA"}

\* to_csv: "ok", "refused" (raised before the file was opened), or
\* <<"torn", k>> (raised after k rows were written).
WriteOutcomes(df) == {<<"ok">>, <<"refused">>} \cup {<<"torn", k>> : k \in 0..(Len(df) - 1)}

WriteFailed(w) == w = <<"refused">> \/ w[1] = "torn"

\* Lines 57-61 under a write outcome.
SaveOutcome(f, df, w) ==
    IF w = <<"ok">> THEN ToCsv(df)
    ELSE IF w = <<"refused">> THEN f
    ELSE [exists |-> TRUE, rows |-> SubSeq(ToCsv(df).rows, 1, w[2])]

NoCacheCall ==
    [tickers |-> <<>>, pre |-> NoFile, looked |-> <<>>, outs |-> <<>>, ret |-> <<>>,
     write |-> <<"none">>, n |-> 0]

\* One whole call: lines 25-38 load, 41-54 look up and append, 57-61 save,
\* 64 return.
GetSectorMappingLogged(tickers, outs, w) ==
    LET df0 == LoadedFrame(file)
        missing == LoadedMissing(file, tickers)
        df1 == Concat(df0, NewMappings(missing, outs))
    IN  /\ file' = IF missing # <<>> THEN SaveOutcome(file, df1, w) ELSE file
        /\ last' = [tickers |-> tickers, pre |-> file, looked |-> missing, outs |-> outs,
                    ret |-> FilterRequested(df1, tickers),
                    write |-> IF missing # <<>> THEN w ELSE <<"none">>,
                    n |-> last.n + 1]
        /\ UNCHANGED <<proc, events, inp, out>>

CacheCall ==
    \E tickers \in SeqsUpTo(CacheTickers, MaxCacheReq) :
        LET missing == LoadedMissing(file, tickers)
            df1 == Concat(LoadedFrame(file), NewMappings(missing, missing))
        IN  /\ last.n < MaxCacheCalls
            /\ Len(file.rows) + Len(missing) <= MaxCacheRows
            /\ \E outs \in [1..Len(missing) -> ProviderOutcomes] :
                   \E w \in (IF missing = <<>> THEN {<<"ok">>} ELSE WriteOutcomes(df1)) :
                       GetSectorMappingLogged(tickers, outs, w)

InitCache ==
    /\ file \in {NoFile, EmptyFile}
    /\ last = NoCacheCall
    /\ proc = <<>>
    /\ events = <<>>
    /\ inp = <<>>
    /\ out = <<>>

NextCache == CacheCall

SpecCache == InitCache /\ [][NextCache]_vars

Init ==
    /\ file \in {NoFile, EmptyFile}
    /\ last = NoCall
    /\ proc = <<>>
    /\ events = <<>>
    /\ inp = <<>>
    /\ out = <<>>

Next == Call

Spec == Init /\ [][Next]_vars

(***************************************************************************)
(* Properties.                                                             *)
(***************************************************************************)
Min(a, b) == IF a < b THEN a ELSE b

EventAt(e) == CHOOSE i \in 1..Len(events) : events[i] = e

Happened(e) == \E i \in 1..Len(events) : events[i] = e

\* q read the file before p saved, and saved after p: q overwrites p.
Overwrites(q, p) ==
    /\ q # p
    /\ Happened(<<"load", q>>)
    /\ Happened(<<"save", p>>)
    /\ Happened(<<"save", q>>)
    /\ EventAt(<<"load", q>>) < EventAt(<<"save", p>>)
    /\ EventAt(<<"save", p>>) < EventAt(<<"save", q>>)

\* The rows call p wrote that call q did not look up itself.
OwnRows(p, q) ==
    {r \in Range(proc[p].new_mappings) : r.Ticker \notin Range(proc[q].missing_tickers)}

\* C1: every row of the cache file before a call is still a row of the file,
\* with the same Sector label, after the call.
C1_FileOnlyExtended ==
    last.n > 0 =>
        \A i \in 1..Len(last.pre.rows) :
            \E j \in 1..Len(file.rows) : file.rows[j] = last.pre.rows[i]

\* C2: no ticker appears in more than one row of the cache file.
C2_TickerUnique ==
    \A i, j \in 1..Len(file.rows) :
        file.rows[i].Ticker = file.rows[j].Ticker => i = j

\* C3: without a lock, a call that read the file before the other call saved
\* and saves after it rewrites the file from its own stale frame: every row
\* the other call wrote for a ticker this call did not look up is lost.
C3_LostUpdate ==
    \A p, q \in Procs :
        Overwrites(q, p) =>
            \A r \in OwnRows(p, q) :
                \A j \in 1..Len(file.rows) : file.rows[j].Ticker # r.Ticker

C3_Witness ==
    \E p, q \in Procs :
        /\ Overwrites(q, p)
        /\ proc[p].pc = "done"
        /\ proc[q].pc = "done"
        /\ OwnRows(p, q) # {}
        /\ \E r \in OwnRows(p, q) : r \in Range(proc[p].ret)

\* The label the cut points give a defined value.
RegimeOf(v, low, high) ==
    IF Leq(v, low) THEN "Low" ELSE IF Leq(v, high) THEN "Medium" ELSE "High"

\* C4: with low < high every defined cell is labelled on its own value:
\* value <= low is Low, low < value <= high is Medium, value > high is High.
C4_CutPoints ==
    (out.done /\ Less(inp.thresholds[1], inp.thresholds[2])) =>
        /\ ~out.raised
        /\ \A k \in Keys(inp.sector_vol_df) :
               ~IsNaN(inp.sector_vol_df.cell[k]) =>
                   out.value.cell[k] =
                       RegimeOf(inp.sector_vol_df.cell[k], inp.thresholds[1], inp.thresholds[2])

C4_Witness ==
    /\ out.done
    /\ Less(inp.thresholds[1], inp.thresholds[2])
    /\ \E k1, k2, k3 \in Keys(inp.sector_vol_df) :
           /\ inp.sector_vol_df.cell[k1] = inp.thresholds[1]
           /\ out.value.cell[k1] = "Low"
           /\ inp.sector_vol_df.cell[k2] = inp.thresholds[2]
           /\ out.value.cell[k2] = "Medium"
           /\ Less(inp.thresholds[2], inp.sector_vol_df.cell[k3])
           /\ out.value.cell[k3] = "High"

SameShapeAndGaps ==
    /\ out.value.index = inp.sector_vol_df.index
    /\ out.value.columns = inp.sector_vol_df.columns
    /\ \A k \in Keys(inp.sector_vol_df) :
           /\ out.value.cell[k] \in Range(RegimeLabels) \cup {NoLabel}
           /\ (out.value.cell[k] = NoLabel) <=> IsNaN(inp.sector_vol_df.cell[k])

\* C5 as stated: the result has the dates and the sector columns of the
\* input, and a cell is undefined exactly when the input cell is.
C5_SameShape == (out.done /\ ~out.raised) => SameShapeAndGaps

\* C5 as amended: that holds for a matrix with at least one date and one
\* sector; for a matrix without dates or without sectors the result is the
\* empty frame, which has neither.
C5_SameShapeNonEmpty ==
    (out.done /\ ~out.raised) =>
        IF IsEmpty(inp.sector_vol_df) THEN out.value = EmptyDF ELSE SameShapeAndGaps

C5_Witness ==
    /\ out.done
    /\ ~out.raised
    /\ \E k1, k2 \in Keys(inp.sector_vol_df) :
           /\ IsNaN(inp.sector_vol_df.cell[k1])
           /\ out.value.cell[k1] = NoLabel
           /\ ~IsNaN(inp.sector_vol_df.cell[k2])
           /\ out.value.cell[k2] # NoLabel

\* The columns of the stock matrix mapped to sector s.
Members(s) ==
    {t \in Range(inp.stock_vol_df.columns) :
        t \in DOMAIN inp.sector_map /\ inp.sector_map[t] = s}

DefinedOn(d, s) == {t \in Members(s) : ~IsNaN(inp.stock_vol_df.cell[<<d, t>>])}

RECURSIVE SumOn(_, _)
SumOn(d, T) ==
    IF T = {} THEN R(0)
    ELSE LET t == CHOOSE t \in T : TRUE
         IN  Add(inp.stock_vol_df.cell[<<d, t>>], SumOn(d, T \ {t}))

MeanOn(d, s) ==
    IF DefinedOn(d, s) = {} THEN NaN
    ELSE DivInt(SumOn(d, DefinedOn(d, s)), Cardinality(DefinedOn(d, s)))

PresentSectors == {s \in Range(SectorOrder) : Members(s) # {}}

\* C6: with method mean, the value of every date and sector is the mean of
\* the defined values of the columns mapped to that sector; an unmapped
\* column feeds no sector and gets no sector of its own.
C6_MeanOfMembers ==
    (out.done /\ inp.method = "mean") =>
        /\ ~out.raised
        /\ \A d \in Range(inp.stock_vol_df.index) :
               \A s \in PresentSectors :
                   /\ <<d, s>> \in DOMAIN out.value.cell
                   /\ out.value.cell[<<d, s>>] = MeanOn(d, s)
        /\ Range(out.value.columns) \subseteq PresentSectors

C6_Witness ==
    /\ out.done
    /\ inp.method = "mean"
    /\ \E t \in Range(inp.stock_vol_df.columns) : t \notin DOMAIN inp.sector_map
    /\ \E d \in Range(inp.stock_vol_df.index) :
           \E s \in PresentSectors :
               /\ Cardinality(Members(s)) = 2
               /\ Cardinality(DefinedOn(d, s)) = 2
               /\ out.value.cell[<<d, s>>] = Frac(3, 2)

SectorShape ==
    /\ out.value.index = inp.stock_vol_df.index
    /\ Range(out.value.columns) = PresentSectors
    /\ Len(out.value.columns) = Cardinality(PresentSectors)

\* C7 as stated: the result has one row per date of the input and one
\* column per sector with a mapped ticker among the input columns.
C7_Shape == (out.done /\ ~out.raised) => SectorShape

\* C7 as amended: that holds for a matrix with at least one date and one
\* ticker; for a matrix without dates or without tickers the result is the
\* empty frame.
C7_ShapeNonEmpty ==
    (out.done /\ ~out.raised) =>
        IF IsEmpty(inp.stock_vol_df) THEN out.value = EmptyDF ELSE SectorShape

C7_Witness ==
    /\ out.done
    /\ ~out.raised
    /\ ~IsEmpty(inp.stock_vol_df)
    /\ out.value.columns # <<>>
    /\ \E t \in DOMAIN inp.sector_map :
           /\ t \notin Range(inp.stock_vol_df.columns)
           /\ inp.sector_map[t] \notin PresentSectors
           /\ inp.sector_map[t] \notin Range(out.value.columns)

SupportedMethods == {"mean", "median", "weighted"}

\* C8 as stated: an unsupported method name fails with an error naming it,
\* for every matrix.
C8_UnsupportedRaises ==
    (out.done /\ inp.method \notin SupportedMethods) =>
        (out.raised /\ inp.method \in Range(out.msg))

\* C8 as amended: it does so for every matrix with at least one date and
\* one ticker; a matrix without dates or tickers gives the empty frame
\* before the method is looked at.
C8_UnsupportedRaisesNonEmpty ==
    (out.done /\ inp.method \notin SupportedMethods) =>
        IF IsEmpty(inp.stock_vol_df)
        THEN ~out.raised /\ out.value = EmptyDF
        ELSE out.raised /\ inp.method \in Range(out.msg)

C8_Witness ==
    /\ out.done
    /\ inp.method \notin SupportedMethods
    /\ ~IsEmpty(inp.stock_vol_df)
    /\ PresentSectors # {}
    /\ out.raised
    /\ inp.method \in Range(out.msg)

\* C9: method weighted returns what method mean returns on the same
\* arguments.
C9_WeightedIsMean ==
    (out.done /\ inp.method = "weighted") =>
        out = compute_sector_volatility(inp.stock_vol_df, inp.sector_map, "mean")

C9_Witness ==
    /\ out.done
    /\ inp.method = "weighted"
    /\ ~out.raised
    /\ \E d \in Range(inp.stock_vol_df.index) :
           \E s \in PresentSectors :
               /\ Cardinality(DefinedOn(d, s)) = 3
               /\ out.value.cell[<<d, s>>] = Frac(7, 3)

DefinedSectors(date) ==
    {s \in Range(inp.sector_vol_df.columns) : ~IsNaN(inp.sector_vol_df.cell[<<date, s>>])}

RankedKeys == {out.value[i].key : i \in 1..Len(out.value)}

\* C10: for a date of the matrix the result lists that date's defined
\* sectors with their values, descending, cut to the first top_n when top_n
\* is given; undefined sectors are left out, and no sector cut off has a
\* larger value than a sector returned.
C10_RankOnDate ==
    (out.done /\ inp.date # None /\ inp.date[1] \in Range(inp.sector_vol_df.index)) =>
        LET date == inp.date[1]
            defined == DefinedSectors(date)
            k == IF inp.top_n = None THEN Cardinality(defined)
                 ELSE Min(inp.top_n[1], Cardinality(defined))
        IN  /\ ~out.raised
            /\ Len(out.value) = k
            /\ Cardinality(RankedKeys) = k
            /\ \A i \in 1..Len(out.value) :
                   /\ out.value[i].key \in defined
                   /\ out.value[i].val = inp.sector_vol_df.cell[<<date, out.value[i].key>>]
            /\ \A i \in 1..(Len(out.value) - 1) :
                   Leq(out.value[i + 1].val, out.value[i].val)
            /\ \A s \in defined \ RankedKeys :
                   \A i \in 1..Len(out.value) :
                       Leq(inp.sector_vol_df.cell[<<date, s>>], out.value[i].val)

C10_Witness ==
    /\ out.done
    /\ inp.date # None
    /\ inp.date[1] \in Range(inp.sector_vol_df.index)
    /\ inp.top_n = Some(2)
    /\ inp.sector_vol_df.columns = RankSectors
    /\ inp.sector_vol_df.cell[<<inp.date[1], "Tech">>] = R(3)
    /\ inp.sector_vol_df.cell[<<inp.date[1], "Energy">>] = R(1)
    /\ inp.sector_vol_df.cell[<<inp.date[1], "Health">>] = R(2)
    /\ out.value = <<[key |-> "Tech", val |-> R(3)], [key |-> "Health", val |-> R(2)]>>

\* The dates on which sector s has a defined value.
DefinedDates(s) ==
    {d \in Range(inp.sector_vol_df.index) : ~IsNaN(inp.sector_vol_df.cell[<<d, s>>])}

RECURSIVE SumOver(_, _)
SumOver(s, D) ==
    IF D = {} THEN R(0)
    ELSE LET d == CHOOSE d \in D : TRUE
         IN  Add(inp.sector_vol_df.cell[<<d, s>>], SumOver(s, D \ {d}))

TimeMean(s) == DivInt(SumOver(s, DefinedDates(s)), Cardinality(DefinedDates(s)))

\* The sectors with at least one defined value.
SectorsWithData ==
    IF IsEmpty(inp.sector_vol_df) THEN {}
    ELSE {s \in Range(inp.sector_vol_df.columns) : DefinedDates(s) # {}}

\* C11: without a date the result is a table of k = min(top_n, number of
\* sectors with a defined value) rows; row i has Rank i, a sector with a
\* defined value and that sector's mean over its defined dates; the means
\* descend, no sector is listed twice, no sector left out has a larger mean
\* than a listed one, and a sector with no defined value is not listed.
C11_RankOverTime ==
    (out.done /\ inp.date = None) =>
        LET k == IF inp.top_n = None THEN Cardinality(SectorsWithData)
                 ELSE Min(inp.top_n[1], Cardinality(SectorsWithData))
            listed == {out.value[i].Sector : i \in 1..Len(out.value)}
        IN  /\ ~out.raised
            /\ Len(out.value) = k
            /\ Cardinality(listed) = k
            /\ \A i \in 1..Len(out.value) :
                   /\ out.value[i].Rank = i
                   /\ out.value[i].Sector \in SectorsWithData
                   /\ out.value[i].Average_Volatility = TimeMean(out.value[i].Sector)
            /\ \A i \in 1..(Len(out.value) - 1) :
                   Leq(out.value[i + 1].Average_Volatility, out.value[i].Average_Volatility)
            /\ \A s \in SectorsWithData \ listed :
                   \A i \in 1..Len(out.value) :
                       Leq(TimeMean(s), out.value[i].Average_Volatility)

\* Tech 3 and 1 (mean 2), Energy undefined and 3 (mean 3), Health never
\* defined, top_n 3: Energy ranks 1, Tech ranks 2, Health is left out.
C11_Witness ==
    /\ out.done
    /\ inp.date = None
    /\ inp.top_n = Some(3)
    /\ inp.sector_vol_df.columns = RankSectors
    /\ Len(inp.sector_vol_df.index) = 2
    /\ DefinedDates("Health") = {}
    /\ Cardinality(DefinedDates("Energy")) = 1
    /\ out.value = <<[Sector |-> "Energy", Average_Volatility |-> R(3), Rank |-> 1],
                     [Sector |-> "Tech", Average_Volatility |-> R(2), Rank |-> 2]>>

\* The sector matrix the risk contributions are computed from.
RiskSectorVol ==
    compute_sector_volatility(inp.stock_vol_df, inp.sector_map, "mean").value

\* The sectors of the sector matrix sv with a defined volatility on date d.
AvailableOn(sv, d) == {s \in Range(sv.columns) : ~IsNaN(sv.cell[<<d, s>>])}

\* The weight given to sector s: equal by default, 0 for a sector the
\* supplied weights do not name.
GivenWeight(s) ==
    IF inp.weights = <<>> THEN R(1)
    ELSE IF s \in DOMAIN inp.weights[1] THEN inp.weights[1][s]
    ELSE R(0)

NonNegativeWeights ==
    inp.weights # <<>> => \A s \in DOMAIN inp.weights[1] : Leq(R(0), inp.weights[1][s])

RECURSIVE SumOf(_, _)
SumOf(f, S) ==
    IF S = {} THEN R(0)
    ELSE LET x == CHOOSE x \in S : TRUE IN Add(f[x], SumOf(f, S \ {x}))

\* The given weights of the sectors available on d, and their weighted
\* volatilities.
WeightsOn(sv, d) == [s \in AvailableOn(sv, d) |-> GivenWeight(s)]

WeightedOn(sv, d) ==
    [s \in AvailableOn(sv, d) |-> Mul(GivenWeight(s), sv.cell[<<d, s>>])]

RiskCalled == out.done /\ ~IsEmpty(inp.stock_vol_df)

ZeroTotalGivesZero ==
    LET sv == RiskSectorVol
    IN  \A d \in Range(inp.stock_vol_df.index) :
            LET available == AvailableOn(sv, d)
            IN  SumOf(WeightedOn(sv, d), available) = R(0) =>
                    \A s \in available : out.value.cell[<<d, s>>] = R(0)

\* C13: on a date where the weighted volatilities of the available sectors
\* sum to zero, the call raises nothing and every available sector's
\* contribution is 0.
C13_ZeroTotal == RiskCalled => (~out.raised /\ ZeroTotalGivesZero)

\* The same, for calls whose weights are supplied or whose sector map names
\* at least one sector.
C13_ZeroTotalWithSectors ==
    (RiskCalled /\ (inp.weights # <<>> \/ DOMAIN inp.sector_map # {})) =>
        (~out.raised /\ ZeroTotalGivesZero)

\* The dates the sector matrix and the benchmark series share.
SharedDates ==
    Range(inp.sector_vol_df.index) \cap Range(inp.benchmark_vol_series.index)

ExcessShape ==
    /\ ~out.raised
    /\ Range(out.value.index) = SharedDates
    /\ Len(out.value.index) = Cardinality(SharedDates)
    /\ SharedDates = {} => IsEmpty(out.value)
    /\ SharedDates # {} =>
           /\ out.value.columns = inp.sector_vol_df.columns
           /\ \A d \in SharedDates :
                  \A s \in Range(inp.sector_vol_df.columns) :
                      out.value.cell[<<d, s>>] =
                          Add(inp.sector_vol_df.cell[<<d, s>>],
                              Neg(inp.benchmark_vol_series.val[d]))

\* C14: the rows of the result are exactly the dates the sector matrix and
\* the benchmark series share, its columns are the input sectors, each cell
\* is the sector value minus the benchmark value of the date; without a
\* shared date the result is empty and nothing is raised.
C14_Excess == out.done => ExcessShape

\* C14 for a sector matrix with at least one date and one sector column.
C14_ExcessNonEmpty == (out.done /\ ~IsEmpty(inp.sector_vol_df)) => ExcessShape

\* Two sectors on two dates, the benchmark on one of them: one row, with
\* 3 - 1 = 2 in one of its cells.
C14_Witness ==
    /\ out.done
    /\ Len(inp.sector_vol_df.index) = 2
    /\ Len(inp.sector_vol_df.columns) = 2
    /\ Cardinality(SharedDates) = 1
    /\ Len(out.value.index) = 1
    /\ \E k \in Keys(out.value) :
           /\ inp.sector_vol_df.cell[k] = R(3)
           /\ inp.benchmark_vol_series.val[k[1]] = R(1)
           /\ out.value.cell[k] = R(2)

\* The sectors of the clustered matrix without an undefined value.
CompleteSectors ==
    {s \in Range(inp.sector_vol_df.columns) :
        \A d \in Range(inp.sector_vol_df.index) : ~IsNaN(inp.sector_vol_df.cell[<<d, s>>])}

ClusterCalled == out.done /\ ~IsEmpty(inp.sector_vol_df)

\* C15: for the hierarchical and the kmeans method on a non-empty matrix,
\* the sectors the result lists are the sectors without an undefined value,
\* and when fewer of them remain than n_clusters the call raises nothing and
\* the result has an error entry and no cluster labels.
C15_TooFewSectors ==
    (ClusterCalled /\ inp.method \in {"hierarchical", "kmeans"}) =>
        /\ ~out.raised
        /\ "sectors" \in DOMAIN out.value => Range(out.value["sectors"]) = CompleteSectors
        /\ Cardinality(CompleteSectors) < inp.n_clusters =>
               /\ "error" \in DOMAIN out.value
               /\ "cluster_labels" \notin DOMAIN out.value

\* The same for the kmeans method alone.
C15_TooFewSectorsKMeans ==
    (ClusterCalled /\ inp.method = "kmeans") =>
        /\ ~out.raised
        /\ "sectors" \in DOMAIN out.value => Range(out.value["sectors"]) = CompleteSectors
        /\ Cardinality(CompleteSectors) < inp.n_clusters =>
               /\ "error" \in DOMAIN out.value
               /\ "cluster_labels" \notin DOMAIN out.value

NeededLibraryMissing ==
    \/ inp.method = "hierarchical" /\ ~inp.SCIPY_AVAILABLE
    \/ inp.method = "kmeans" /\ ~inp.SKLEARN_AVAILABLE

\* C16: on a non-empty matrix, when the library of the requested method is
\* missing the call raises nothing and returns only an error message, which
\* names the library; when that library is present no such message is
\* returned, whether or not the other library is missing.
C16_MissingLibrary ==
    ClusterCalled =>
        /\ ~out.raised
        /\ NeededLibraryMissing =>
               /\ DOMAIN out.value = {"error"}
               /\ out.value["error"] =
                      (IF inp.method = "hierarchical" THEN ScipyRequired ELSE SklearnRequired)
        /\ (~NeededLibraryMissing /\ "error" \in DOMAIN out.value) =>
               out.value["error"] \notin {ScipyRequired, SklearnRequired}

\* kmeans without scikit-learn, scipy present, on a matrix that could be
\* clustered.
C16_Witness ==
    /\ ClusterCalled
    /\ inp.method = "kmeans"
    /\ ~inp.SKLEARN_AVAILABLE
    /\ inp.SCIPY_AVAILABLE
    /\ Cardinality(CompleteSectors) >= inp.n_clusters
    /\ Cardinality(CompleteSectors) >= 2
    /\ out.value = ("error" :> SklearnRequired)

\* The operations that return a table.
TableOperations ==
    {"compute_sector_volatility", "compute_sector_risk_contribution",
     "compare_with_benchmark", "compute_sector_correlation",
     "detect_sector_volatility_regimes"}

\* C17: each of the seven operations, given an empty matrix, raises nothing
\* and returns an empty result (an empty table, an empty series, an empty
\* dict), whatever its other arguments are.
C17_EmptyInEmptyOut ==
    (out.done /\ IsEmpty(inp.df)) =>
        /\ ~out.raised
        /\ events[1] \in TableOperations => out.value = EmptyDF
        /\ events[1] = "rank_sectors_by_volatility" => out.value = <<>>
        /\ events[1] = "cluster_sectors_by_volatility" => out.value = EmptyDict

\* compute_sector_volatility on a matrix with columns and no dates, with an
\* unsupported method name: an empty table, nothing raised.
C17_Witness ==
    /\ out.done
    /\ events = <<"compute_sector_volatility">>
    /\ inp.df.index = <<>>
    /\ inp.df.columns = StockTickers
    /\ inp.method = "mode"
    /\ ~out.raised
    /\ out.value = EmptyDF

VolCalled(name) == out.done /\ events = <<name>>

\* Every adjusted close of the table is a defined, positive number.
PricesPositive(df) ==
    \A i \in 1..Len(df) : XIsFinite(df[i].AdjClose) /\ XSign(df[i].AdjClose) > 0

\* A square root that is a defined, non-negative number.
RootDefined(r) == XIsFinite(r.rad) /\ XSign(r.rad) >= 0

\* The output has the positions of the input, is undefined at the first
\* window positions and a defined non-negative number at the later ones.
UndefinedThenDefined(vol, df, window) ==
    /\ Len(vol) = Len(df)
    /\ \A i \in 1..Len(vol) :
           IF i <= window THEN RootIsNaN(vol[i]) ELSE RootDefined(vol[i])

\* C18 as stated: for every price series and every window w >= 2, the
\* output of historical_volatility has the index of the input, is undefined
\* at the first w bars and a defined non-negative number at every later bar.
C18_HistoricalAnyPrices ==
    (VolCalled("historical_volatility") /\ inp.window >= 2) =>
        UndefinedThenDefined(out.value, inp.df, inp.window)

\* C18, for price series whose adjusted closes are all defined and positive:
\* for every window w >= 2, the output of historical_volatility has the
\* index of the input, is undefined at the first w bars and a defined
\* non-negative number at every later bar.
C18_HistoricalPositivePrices ==
    (VolCalled("historical_volatility") /\ inp.window >= 2 /\ PricesPositive(inp.df)) =>
        UndefinedThenDefined(out.value, inp.df, inp.window)

\* Adjusted closes 1, 4, 1 with window 2: the returns are NaN, 3, -3/4 and
\* the output is undefined twice and then sqrt(225/32).
C18_Witness ==
    /\ VolCalled("historical_volatility")
    /\ ColumnOf(inp.df, "AdjClose") = <<XInt(1), XInt(4), XInt(1)>>
    /\ inp.window = 2
    /\ ~inp.annualize
    /\ out.value = <<[rad |-> XNaN], [rad |-> XNaN], [rad |-> XConst(Frac(225, 32))]>>

\* What the operation called returns for the same table and window with
\* annualize = False (one result per pandas behaviour).
PlainOutputs ==
    IF events = <<"historical_volatility">>
    THEN {historical_volatility(inp.df, inp.window, FALSE, pad) : pad \in BOOLEAN}
    ELSE IF events = <<"parkinson_volatility">>
    THEN {parkinson_volatility(inp.df, inp.window, FALSE)}
    ELSE {garman_klass_volatility(inp.df, inp.window, FALSE)}

\* ann is defined exactly where plain is, and there is plain * sqrt(252):
\* both are square roots, so the radicand is 252 times the radicand.
ScaledBySqrt252(ann, plain) ==
    /\ Len(ann) = Len(plain)
    /\ \A i \in 1..Len(ann) :
           /\ RootIsNaN(ann[i]) <=> RootIsNaN(plain[i])
           /\ ~RootIsNaN(plain[i]) => ann[i].rad = XMul(plain[i].rad, XInt(252))

\* C19: for each of the three estimators, every table and every window, the
\* output with annualize = True is defined at exactly the positions where
\* the output with annualize = False is defined, and there equals it
\* multiplied by sqrt(252).
C19_AnnualizeScales ==
    (out.done /\ inp.annualize) =>
        \E plain \in PlainOutputs : ScaledBySqrt252(out.value, plain)

\* historical_volatility with annualize = True on adjusted closes 1, 4, 1
\* and window 2: sqrt(225/32) * sqrt(252) = sqrt(14175/8) at the third bar.
C19_Witness ==
    /\ VolCalled("historical_volatility")
    /\ ColumnOf(inp.df, "AdjClose") = <<XInt(1), XInt(4), XInt(1)>>
    /\ inp.window = 2
    /\ inp.annualize
    /\ out.value = <<[rad |-> XNaN], [rad |-> XNaN], [rad |-> XConst(Frac(14175, 8))]>>

\* garman_klass_volatility with annualize = True on the bar Open 2, High 4,
\* Low 1, Close 1: the radicand 3 L^2 - 2 L^3 (L = ln 2) times 252.
C19_WitnessGarmanKlass ==
    /\ VolCalled("garman_klass_volatility")
    /\ inp.annualize
    /\ Len(inp.df) = 1
    /\ inp.df[1].High = XInt(4)
    /\ out.value = <<[rad |-> XFin(2, <<R(756), R(-504)>>)]>>

\* The value the Parkinson formula gives at position i: sqrt((1/(4 ln 2)) *
\* M), M the mean of the squares of ln(High/Low) over the last window bars,
\* times sqrt(252) when annualizing.
ParkinsonFormula(df, window, annualize, i) ==
    LET squares == [j \in 1..window |->
                       LET x == XLog(XDiv(df[i - window + j].High, df[i - window + j].Low))
                       IN  XMul(x, x)]
        M == XDiv(XSum(squares), XInt(window))
        park == XSqrt(XDiv(M, XMul(XInt(4), XLn2)))
    IN  IF annualize THEN RootMul(park, XSqrt(XInt(252))) ELSE park

\* The bars of the window ending at i all have High >= Low > 0.
ValidWindow(df, window, i) ==
    /\ i >= window
    /\ \A j \in (i - window + 1)..i :
           /\ XIsFinite(df[j].High) /\ XIsFinite(df[j].Low)
           /\ XSign(df[j].Low) > 0
           /\ XSign(XSub(df[j].High, df[j].Low)) >= 0

\* C20: at each bar with a full window (of bars with High >= Low > 0),
\* parkinson_volatility is sqrt((1/(4 ln 2)) * M), M being the mean over the
\* last window bars of the square of ln(High/Low), times sqrt(252) when
\* annualizing.
C20_ParkinsonFormula ==
    VolCalled("parkinson_volatility") =>
        \A i \in 1..Len(inp.df) :
            ValidWindow(inp.df, inp.window, i) =>
                out.value[i] = ParkinsonFormula(inp.df, inp.window, inp.annualize, i)

\* What the code computes on the bars High 4, Low 1 with window 1: the
\* square root of ln 4 / (4 ln 2) = 1/2, where the formula has ln 2.
C20_CodeValue ==
    /\ VolCalled("parkinson_volatility")
    /\ Len(inp.df) = 1
    /\ inp.df[1].High = XInt(4)
    /\ inp.df[1].Low = XInt(1)
    /\ inp.window = 1
    /\ ~inp.annualize
    /\ out.value = <<[rad |-> XConst(Frac(1, 2))]>>
    /\ ParkinsonFormula(inp.df, 1, FALSE, 1) = [rad |-> XLn2]

\* A bar with a defined High and Low of which Low is zero or negative.
NonPositiveLow(bar) ==
    XIsFinite(bar.High) /\ XIsFinite(bar.Low) /\ XSign(bar.Low) <= 0

\* A bar with defined positive High and Low and High < Low.
HighBelowLow(bar) ==
    /\ XIsFinite(bar.High) /\ XIsFinite(bar.Low)
    /\ XSign(bar.Low) > 0
    /\ XSign(XSub(bar.High, bar.Low)) < 0

\* The positions whose window is full and holds one of the bars at bad.
WindowsWith(df, window, bad) ==
    {i \in window..Len(df) : \E j \in (i - window + 1)..i : j \in bad}

\* C21: if any bar of a window has Low = 0, Low < 0 or High < Low, the
\* output of parkinson_volatility at the position of that window is
\* undefined, and no exception is raised.
C21_InvalidBarUndefined ==
    VolCalled("parkinson_volatility") =>
        /\ ~out.raised
        /\ \A i \in WindowsWith(inp.df, inp.window,
                                {j \in 1..Len(inp.df) : \/ NonPositiveLow(inp.df[j])
                                                        \/ HighBelowLow(inp.df[j])}) :
               RootIsNaN(out.value[i])

\* The part of C21 about Low: a window with a bar whose Low is zero or
\* negative has an undefined output.
C21_NonPositiveLowUndefined ==
    VolCalled("parkinson_volatility") =>
        /\ ~out.raised
        /\ \A i \in WindowsWith(inp.df, inp.window,
                                {j \in 1..Len(inp.df) : NonPositiveLow(inp.df[j])}) :
               RootIsNaN(out.value[i])

\* The bars High 4, Low 1 and High 1, Low 2 with window 2: the mean of
\* ln 4 and ln(1/2) is positive and the output at the second bar is the
\* defined number sqrt(1/8).
C21_DefinedOnInvalidBar ==
    /\ VolCalled("parkinson_volatility")
    /\ Len(inp.df) = 2
    /\ inp.df[1].High = XInt(4) /\ inp.df[1].Low = XInt(1)
    /\ inp.df[2].High = XInt(1) /\ inp.df[2].Low = XInt(2)
    /\ inp.window = 2
    /\ ~inp.annualize
    /\ out.value[2] = [rad |-> XConst(Frac(1, 8))]

\* R = 0.5 * ln(High/Low)^2 - (2 ln 2 - 1) * ln(Close/Open)^2 of a bar.
Radicand(bar) ==
    LET hl == XLog(XDiv(bar.High, bar.Low))
        co == XLog(XDiv(bar.Close, bar.Open))
    IN  XSub(XMul(XConst(Frac(1, 2)), XMul(hl, hl)),
             XMul(XSub(XMul(XInt(2), XLn2), XInt(1)), XMul(co, co)))

\* value is undefined when the radicand is negative or undefined, and
\* otherwise its square root, times sqrt(252) when annualizing.
RootOfRadicand(value, rad, annualize) ==
    IF XIsNaN(rad) \/ XSign(rad) < 0
    THEN XIsNaN(value.rad)
    ELSE value.rad = (IF annualize THEN XMul(rad, XInt(252)) ELSE rad)

FlatBar(bar) == bar.High = bar.Low /\ bar.Low = bar.Close /\ bar.Close = bar.Open

\* C22: at each bar garman_klass_volatility is undefined when the radicand
\* R is negative and sqrt(R) when R >= 0 (times sqrt(252) when annualizing),
\* raising nothing; a bar with High = Low = Close = Open > 0 yields exactly 0.
C22_GarmanKlassRadicand ==
    VolCalled("garman_klass_volatility") =>
        /\ ~out.raised
        /\ Len(out.value) = Len(inp.df)
        /\ \A i \in 1..Len(inp.df) :
               /\ RootOfRadicand(out.value[i], Radicand(inp.df[i]), inp.annualize)
               /\ (FlatBar(inp.df[i]) /\ XSign(inp.df[i].Open) > 0) =>
                      out.value[i] = [rad |-> XInt(0)]

\* A flat bar followed by the bar Open 1, High 2, Low 1, Close 4, whose
\* radicand (1/2) L^2 - (2 L - 1) * 4 L^2 is negative: 0, then undefined.
C22_Witness ==
    /\ VolCalled("garman_klass_volatility")
    /\ Len(inp.df) = 2
    /\ FlatBar(inp.df[1])
    /\ inp.df[2].High = XInt(2) /\ inp.df[2].Close = XInt(4)
    /\ XSign(Radicand(inp.df[2])) < 0
    /\ out.value = <<[rad |-> XInt(0)], [rad |-> XNaN]>>

\* The bar High = 110, Low = 100, Close = 100, Open = 100.
IsBar110(bar) ==
    /\ bar.High = XInt(110)
    /\ bar.Low = XInt(100)
    /\ bar.Close = XInt(100)
    /\ bar.Open = XInt(100)

\* 0.5 * ln(110/100)^2.
HalfLogSquared == XMul(XConst(Frac(1, 2)), XMul(XLn11_10, XLn11_10))

\* C23 as stated: for the bar High=110, Low=100, Close=100, Open=100 the
\* Garman-Klass radicand is negative and garman_klass_volatility is
\* undefined at that bar.
C23_Bar110Undefined ==
    VolCalled("garman_klass_volatility") =>
        \A i \in 1..Len(inp.df) :
            IsBar110(inp.df[i]) =>
                XSign(Radicand(inp.df[i])) < 0 /\ RootIsNaN(out.value[i])

\* C23, as the code and the formula have it: for the bar High=110, Low=100,
\* Close=100, Open=100 the Garman-Klass radicand is 0.5 * ln(1.1)^2, a
\* positive number, and garman_klass_volatility is defined at that bar: its
\* square root, times sqrt(252) when annualizing.
C23_Bar110Defined ==
    VolCalled("garman_klass_volatility") =>
        \A i \in 1..Len(inp.df) :
            IsBar110(inp.df[i]) =>
                /\ Radicand(inp.df[i]) = HalfLogSquared
                /\ XSign(HalfLogSquared) > 0
                /\ out.value[i].rad =
                       (IF inp.annualize THEN XMul(HalfLogSquared, XInt(252))
                        ELSE HalfLogSquared)

\* garman_klass_volatility without annualizing on that bar alone: the
\* square root of (1/2) M^2, M = ln(11/10).
C23_Witness ==
    /\ VolCalled("garman_klass_volatility")
    /\ Len(inp.df) = 1
    /\ IsBar110(inp.df[1])
    /\ ~inp.annualize
    /\ out.value = <<[rad |-> XFin(32, <<Frac(1, 2)>>)]>>

\* C24: garman_klass_volatility is computed per bar: its output has the
\* index of the input, and the value at a bar is what the function gives
\* for the table of that bar alone under any window, so that neither the
\* window nor another bar (nor an undefined value at another bar) changes it
\* and there is no leading run of undefined values.
C24_GarmanKlassPerBar ==
    VolCalled("garman_klass_volatility") =>
        /\ Len(out.value) = Len(inp.df)
        /\ \A i \in 1..Len(inp.df) :
               \A window \in 1..MaxWindow :
                   out.value[i] =
                       garman_klass_volatility(<<inp.df[i]>>, window, inp.annualize)[1]

\* Window 3 on two bars: the bar Open 1, High 2, Low 1, Close 4 is undefined
\* (negative radicand), the bar Open 2, High 4, Low 1, Close 1 after it is
\* the square root of 3 L^2 - 2 L^3 although the window is not full.
C24_Witness ==
    /\ VolCalled("garman_klass_volatility")
    /\ Len(inp.df) = 2
    /\ inp.df[1].Close = XInt(4)
    /\ inp.df[2].High = XInt(4)
    /\ inp.window = 3
    /\ ~inp.annualize
    /\ out.value = <<[rad |-> XNaN], [rad |-> XFin(2, <<R(3), R(-2)>>)]>>

\* The call logged at i left its arguments as they were.
ArgumentsKept(i) == proc[i].after = proc[i].args

\* Two logged calls of one function with identical arguments returned
\* identical results.
SameInSameOut ==
    \A i, j \in 1..Len(proc) :
        (proc[i].op = proc[j].op /\ proc[i].args = proc[j].args) =>
            proc[i].result = proc[j].result

Logged == Len(proc) > 0 /\ "family" \in DOMAIN inp

\* C25: the computation functions are pure: a call leaves every argument it
\* was given unchanged, and two calls with identical inputs return identical
\* outputs.
C25_Pure ==
    Logged => (SameInSameOut /\ \A i \in 1..Len(proc) : ArgumentsKept(i))

\* The same for the functions other than beta_adjusted_volatility.
C25_PureEstimators ==
    Logged =>
        /\ SameInSameOut
        /\ \A i \in 1..Len(proc) :
               proc[i].op # "beta_adjusted_volatility" => ArgumentsKept(i)

\* A call of beta_adjusted_volatility after which the caller's table has the
\* column 'Adjusted Volatility' it did not have before.
C25_ArgumentChanged ==
    /\ Logged
    /\ proc[1].op = "beta_adjusted_volatility"
    /\ "Adjusted Volatility" \notin DOMAIN proc[1].args.stock_vol_df
    /\ "Adjusted Volatility" \in DOMAIN inp.stock_vol_df
    /\ out.value = inp.stock_vol_df

\* No two rows of the table have the same (Date, Ticker).
KeyedByDateTicker(rows) ==
    \A i, j \in 1..Len(rows) :
        (rows[i].Date = rows[j].Date /\ rows[i].Ticker = rows[j].Ticker) => i = j

\* The rows of the table under a ticker, as Date and bar.
KeyGroup(rows, ticker) ==
    LET group == SelectSeq(rows, LAMBDA r : r.Ticker = ticker)
    IN  [i \in 1..Len(group) |-> [Date |-> group[i].Date, bar |-> group[i].bar]]

FetchCalled == out.done /\ inp.provider = "yfinance"

\* The result for a request: nothing raised when a requested ticker is
\* resolved, a table keyed by (Date, Ticker), the own bars of every resolved
\* requested ticker under its key, no row for any other ticker.
FetchedOwnBars ==
    /\ Range(inp.tickers) \cap Resolved # {} => ~out.raised
    /\ ~out.raised =>
           /\ KeyedByDateTicker(out.value)
           /\ \A t \in FetchTickers :
                  KeyGroup(out.value, t) =
                      (IF t \in Range(inp.tickers) \cap Resolved THEN TickerRows(t) ELSE <<>>)

\* C26: fetch_ohlcv returns one table keyed by (Date, Ticker) in which each
\* requested ticker the provider resolved forms its own key-group holding
\* its own bars, whether one or several tickers were requested; a requested
\* ticker the provider did not resolve contributes no rows and does not make
\* the call fail as long as another ticker resolved.
C26_FetchKeyed == FetchCalled => FetchedOwnBars

\* The same for a list that names no ticker twice, with a provider that
\* leaves out the tickers it could not resolve.
C26_FetchKeyedDistinct ==
    (/\ FetchCalled
     /\ Cardinality(Range(inp.tickers)) = Len(inp.tickers)
     /\ ~inp.placeholders) => FetchedOwnBars

\* fetch_ohlcv(['AAPL', 'AAPL']): every bar of AAPL is in the table twice.
C26_DuplicateKeys ==
    /\ FetchCalled
    /\ inp.tickers = <<"AAPL", "AAPL">>
    /\ ~out.raised
    /\ Len(out.value) = 2 * Len(FetchDates)
    /\ ~KeyedByDateTicker(out.value)

\* The call on record returned a row for the ticker.
Returned(t) == \E i \in 1..Len(last.ret) : last.ret[i].Ticker = t

UnknownRow(t) == [Ticker |-> t, Sector |-> "Unknown"]

\* C27: get_sector_mapping returns at least one row for every requested
\* ticker and no row for a ticker that was not requested; a ticker whose
\* lookup raised or whose record had no sector is returned with the label
\* Unknown, and is in the file with it when the file was written.
C27_EveryRequestedReturned ==
    last.n > 0 =>
        /\ \A t \in Range(last.tickers) : Returned(t)
        /\ \A i \in 1..Len(last.ret) : last.ret[i].Ticker \in Range(last.tickers)
        /\ \A k \in 1..Len(last.looked) :
               last.outs[k] \in {LookupRaises, NoSectorKey} =>
                   /\ UnknownRow(last.looked[k]) \in Range(last.ret)
                   /\ last.write = <<"ok">> => UnknownRow(last.looked[k]) \in Range(file.rows)

\* A first call for AAPL and NA whose lookups raise and find no sector: both
\* are returned and cached as Unknown.
C27_Witness ==
    /\ last.n = 1
    /\ last.tickers = <<"AAPL", "NA">>
    /\ last.outs = <<LookupRaises, NoSectorKey>>
    /\ last.write = <<"ok">>
    /\ last.ret = <<UnknownRow("AAPL"), UnknownRow("NA")>>
    /\ file.rows = last.ret

\* The file f has a row whose ticker text is t.
InFile(f, t) == f.exists /\ \E i \in 1..Len(f.rows) : f.rows[i].Ticker = t

\* Every ticker of the call on record had a row in the file before the call.
AllCached == \A t \in Range(last.tickers) : InFile(last.pre, t)

NoLookupNoWrite ==
    /\ last.looked = <<>>
    /\ last.write = <<"none">>
    /\ file = last.pre

\* C28: when every requested ticker is already in the cache file,
\* get_sector_mapping performs no provider lookup and does not write the
\* file; the file content after the call equals the content before it.
C28_AllCachedNoLookup == (last.n > 0 /\ AllCached) => NoLookupNoWrite

\* The same for requests of tickers that pd.read_csv returns as written.
C28_AllCachedNoLookupPlain ==
    (last.n > 0 /\ AllCached /\ Range(last.tickers) \cap NaStrings = {}) => NoLookupNoWrite

\* A call for NA on a file that has the row NA,Technology looks NA up and
\* rewrites the file.
C28_CachedLookedUp ==
    /\ last.n = 2
    /\ last.tickers = <<"NA">>
    /\ last.pre.rows = <<[Ticker |-> "NA", Sector |-> "Technology"]>>
    /\ last.looked = <<"NA">>
    /\ last.write = <<"ok">>
    /\ file.rows = <<[Ticker |-> "", Sector |-> "Technology"], [Ticker |-> "NA", Sector |-> "Technology"]>>

\* A call served from the file: AAPL is cached and requested again.
C28_ServedFromFile ==
    /\ last.n = 2
    /\ last.tickers = <<"AAPL">>
    /\ AllCached
    /\ NoLookupNoWrite
    /\ last.ret = <<[Ticker |-> "AAPL", Sector |-> "Technology"]>>

\* The file f has the row t,Unknown.
CachedUnknown(f, t) == f.exists /\ [Ticker |-> t, Sector |-> "Unknown"] \in Range(f.rows)

\* The call on record looked up no ticker of the set S that had a row in the
\* file, and returned as Unknown every requested ticker of S that the file
\* held as Unknown.
CachedNotLookedUp(S) ==
    /\ \A t \in S : InFile(last.pre, t) => t \notin Range(last.looked)
    /\ \A t \in S \cap Range(last.tickers) :
           CachedUnknown(last.pre, t) => UnknownRow(t) \in Range(last.ret)

\* C29: once a ticker has a row in the cache file, no later call of
\* get_sector_mapping looks it up at the provider again; a ticker cached as
\* Unknown keeps the label Unknown in every later call.
C29_CachedNeverLookedUp == last.n > 0 => CachedNotLookedUp(CacheTickers)

\* The same for tickers that pd.read_csv returns as written.
C29_CachedNeverLookedUpPlain == last.n > 0 => CachedNotLookedUp(CacheTickers \ NaStrings)

\* NA is cached as Unknown by a first call; a second call looks it up again
\* and returns the sector the provider now gives.
C29_UnknownReplaced ==
    /\ last.n = 2
    /\ last.tickers = <<"NA">>
    /\ CachedUnknown(last.pre, "NA")
    /\ last.looked = <<"NA">>
    /\ last.ret = <<[Ticker |-> "NA", Sector |-> "Technology"]>>

\* AAPL is cached as Unknown and a second call returns it from the file.
C29_UnknownKept ==
    /\ last.n = 2
    /\ last.tickers = <<"AAPL">>
    /\ CachedUnknown(last.pre, "AAPL")
    /\ last.looked = <<>>
    /\ last.ret = <<UnknownRow("AAPL")>>

\* The write of the call on record failed with an outcome of the set W: the
\* call still returned every requested ticker and the file is as before it.
FailedWriteKept(W) ==
    (last.n > 0 /\ last.write \in W) =>
        /\ \A t \in Range(last.tickers) : Returned(t)
        /\ file = last.pre

\* After a write that failed with an outcome of W, a call for the same
\* tickers looks up the tickers that were missing.
LooksUpAgain(W) ==
    (last.write \in W /\ last'.tickers = last.tickers) => last'.looked = last.looked

RefusedWrites == {<<"refused">>}

FailedWrites == RefusedWrites \cup {<<"torn", k>> : k \in 0..MaxCacheRows}

\* C30: if writing the cache file fails during a cache-miss call,
\* get_sector_mapping still returns the mapping for every requested ticker,
\* the file keeps the content it had before the call, and a later call for
\* the same tickers looks the missing ones up again.
C30_FailedWrite == [](FailedWriteKept(FailedWrites)) /\ [][LooksUpAgain(FailedWrites)]_vars

\* The same for a write that fails before the file is opened for writing.
C30_RefusedWrite == [](FailedWriteKept(RefusedWrites)) /\ [][LooksUpAgain(RefusedWrites)]_vars

\* A write that fails after the file was truncated: the row the file had
\* before the call is gone, the call returned its ticker all the same.
C30_TornWrite ==
    /\ last.n = 2
    /\ last.pre.rows = <<[Ticker |-> "AAPL", Sector |-> "Technology"]>>
    /\ last.tickers = <<"NA">>
    /\ last.write = <<"torn", 0>>
    /\ Returned("NA")
    /\ file.rows = <<>>

\* A refused write: the file is as before and the call returned its ticker.
C30_Refused ==
    /\ last.n = 2
    /\ last.pre.rows = <<[Ticker |-> "AAPL", Sector |-> "Technology"]>>
    /\ last.tickers = <<"NA">>
    /\ last.write = <<"refused">>
    /\ Returned("NA")
    /\ file = last.pre

=============================================================================
